---------------------------- MODULE Spec2Model ----------------------------
(***************************************************************************)
(* Model of the tournament engine of pes-league-app: the legacy round-robin *)
(* schedule generator, the roster gate and the team draw, the two-round     *)
(* fixtures builder and the standings table, as written in                  *)
(* src/app/dashboard/page.tsx and the fixtures library.                     *)
(*                                                                          *)
(* Ids (teams, tournaments, player e-mails) are positive integers.  The     *)
(* record store is a single client's view: every handler is one step.       *)
(***************************************************************************)
EXTENDS Integers, Sequences, FiniteSets, TLC

VARIABLES
    role,               \* current user's role (React state `role`)
    activeTournamentId, \* React state `activeTournamentId`
    tournamentTeams,    \* team ids of the active tournament, in created_at order
    matches,            \* rows of table `matches` of the active tournament
    doubleRoundRobin,   \* React state `doubleRoundRobin` (checkbox)
    players,            \* rows of table `players`, in name order
    tournament_players, \* rows of table `tournament_players` (the draw)
    localStorage,       \* tournament ids t whose key rosterLocked:t holds "1"
    rosterLocked,       \* React state `rosterLocked`
    fixtures,           \* rows of table `fixtures`
    drafts,             \* ScheduleCard state `drafts`
    standings,          \* the memoised standings list
    editingMatchId,     \* React state `editingMatchId` (position in matches)
    editHomeGoals,      \* React state `editHomeGoals` (text of the home input)
    editAwayGoals,      \* React state `editAwayGoals` (text of the away input)
    typed,              \* what was last entered in <<home input, away input>>
    drawing,            \* React state `drawing` of each open dashboard page
    tournaments,        \* rows of table `tournaments`: name of each id
    env,                \* whether the endpoint's environment keys are set
    req,                \* the request the endpoint is handling
    pc,                 \* the endpoint's position in POST
    response,           \* status and error text of the endpoint's response
    calls,              \* inviteUserByEmail calls issued so far
    outcome             \* which return path the last handler took

scheduleVars == <<matches, doubleRoundRobin>>
drawVars == <<players, tournament_players, localStorage, rosterLocked>>
fixtureVars == <<fixtures, drafts>>
editVars == <<editingMatchId, editHomeGoals, editAwayGoals, typed>>
inviteVars == <<env, req, pc, response, calls>>
otherVars == <<drawing, tournaments, inviteVars>>
vars == <<role, activeTournamentId, tournamentTeams, matches, doubleRoundRobin,
          players, tournament_players, localStorage, rosterLocked,
          fixtures, drafts, standings,
          editingMatchId, editHomeGoals, editAwayGoals, typed, drawing,
          tournaments, env, req, pc, response, calls, outcome>>

(***************************************************************************)
(* Values                                                                   *)
(***************************************************************************)
\* null / falsy id (no tournament, no team)
NULL_ID == 0
\* null score
NULL_SCORE == -1
\* null played_at
NULL_TS == 0
\* the "__BYE__" marker of generateSchedule; no team id equals it
BYE == -1

Roles == {"admin", "player", "null"}

isAdminOrPlayer(r) == r \in {"admin", "player"}
isAdmin(r) == r = "admin"

\* the handler's idle value before any call
NoOutcome == [op |-> "none", result |-> "none"]

\* the text "" of a score input; the text String(n) is modelled by n
EMPTY_TEXT == -1

\* nothing entered in an input since the edit began
NoTyped == [kind |-> "none", tenths |-> 0]

\* no match is being edited: editingMatchId null, both inputs ""
NoEdit ==
    /\ editingMatchId = NULL_ID
    /\ editHomeGoals = EMPTY_TEXT
    /\ editAwayGoals = EMPTY_TEXT
    /\ typed = <<NoTyped, NoTyped>>

\* the dashboard pages open on the same store
Pages == {1, 2}

\* no page is in the middle of a handler
\* rows of table `tournaments`: two tournaments, named 1 and 2
StoredTournaments == [t \in {1, 2} |-> t]

\* the request the endpoint holds before any has arrived
\* no response yet
NoResponse == [status |-> 0, error |-> "none"]

NoRequest ==
    [authorization |-> [scheme |-> "none", credentials |-> ""],
     body |-> [parses |-> TRUE, fields |-> <<>>]]

OtherIdle ==
    /\ drawing = [p \in Pages |-> FALSE]
    /\ tournaments = StoredTournaments
    /\ env = TRUE
    /\ req = NoRequest /\ pc = "idle" /\ response = NoResponse /\ calls = {}

(***************************************************************************)
(* Bounds                                                                   *)
(***************************************************************************)
MaxTeams == 5

TeamIds == 1..MaxTeams

RECURSIVE DistinctSeqs(_, _)
\* all sequences of length <= n of pairwise distinct elements of S
DistinctSeqs(S, n) ==
    IF n = 0 THEN {<<>>}
    ELSE LET shorter == DistinctSeqs(S, n - 1)
         IN shorter \cup
            {Append(s, x) : <<s, x>> \in {p \in shorter \X S :
                                Len(p[1]) = n - 1 /\ \A k \in 1..Len(p[1]) : p[1][k] # p[2]}}

Range(s) == {s[k] : k \in 1..Len(s)}

(***************************************************************************)
(* generateSchedule: circle method                                          *)
(***************************************************************************)
\* fixed = arr[0]; rest = arr.slice(1); rest.unshift(rest.pop()); [fixed, ...rest]
RotateStuck(arr) == arr
Rotate(arr) ==
    <<arr[1], arr[Len(arr)]>> \o SubSeq(arr, 2, Len(arr) - 1)

RECURSIVE RoundRowsKeepsBye(_, _, _)
RoundRowsKeepsBye(arr, r, i) ==
    IF i >= Len(arr) \div 2 THEN <<>>
    ELSE LET t1 == arr[i + 1]
             t2 == arr[Len(arr) - i]
             row == [round |-> r,
                     home_team_id |-> IF r % 2 = 1 THEN t1 ELSE t2,
                     away_team_id |-> IF r % 2 = 1 THEN t2 ELSE t1]
         IN <<row>> \o RoundRowsKeepsBye(arr, r, i + 1)

RECURSIVE RoundRows(_, _, _)
\* inner loop: for (i = 0; i < half; i++), pair arr[i] with arr[n-1-i] (0-based i)
RoundRows(arr, r, i) ==
    IF i >= Len(arr) \div 2 THEN <<>>
    ELSE LET t1 == arr[i + 1]
             t2 == arr[Len(arr) - i]
             row == [round |-> r,
                     home_team_id |-> IF r % 2 = 1 THEN t1 ELSE t2,
                     away_team_id |-> IF r % 2 = 1 THEN t2 ELSE t1]
         IN (IF t1 = BYE \/ t2 = BYE THEN <<>> ELSE <<row>>)
            \o RoundRows(arr, r, i + 1)

RECURSIVE FirstLeg(_, _, _)
\* outer loop: for (r = 1; r <= rounds; r++) { pairs of round r; rotate }
FirstLeg(arr, r, rounds) ==
    IF r > rounds THEN <<>>
    ELSE RoundRows(arr, r, 0) \o FirstLeg(Rotate(arr), r + 1, rounds)

SecondLegNoSwap(rows, offset) ==
    [k \in 1..Len(rows) |->
        [round |-> rows[k].round + offset,
         home_team_id |-> rows[k].home_team_id,
         away_team_id |-> rows[k].away_team_id]]

\* rows.map(m => ({round: m.round + offset, home: m.away, away: m.home}))
SecondLeg(rows, offset) ==
    [k \in 1..Len(rows) |->
        [round |-> rows[k].round + offset,
         home_team_id |-> rows[k].away_team_id,
         away_team_id |-> rows[k].home_team_id]]

\* the rows generateSchedule builds from the team ids it read
ScheduleRows(teamIds, double) ==
    LET ids == IF Len(teamIds) % 2 = 1 THEN Append(teamIds, BYE) ELSE teamIds
        rounds == Len(ids) - 1
        rows == FirstLeg(ids, 1, rounds)
    IN IF double THEN rows \o SecondLeg(rows, rounds) ELSE rows

\* a freshly inserted match: no players, no scores
NewMatch(row) ==
    [round |-> row.round, home_team_id |-> row.home_team_id,
     away_team_id |-> row.away_team_id,
     player1_email |-> NULL_ID, player2_email |-> NULL_ID,
     player1_score |-> NULL_SCORE, player2_score |-> NULL_SCORE,
     played_at |-> NULL_TS]

InsufficientTeamsAtTwo(teamIds) == Len(teamIds) <= 2
\* the check `if (teamIds.length < 2)`
InsufficientTeams(teamIds) == Len(teamIds) < 2

generateSchedule ==
    /\ isAdmin(role)
    /\ UNCHANGED <<role, activeTournamentId, tournamentTeams, doubleRoundRobin>>
    /\ UNCHANGED <<drawVars, fixtureVars, standings, editVars, otherVars>>
    /\ IF activeTournamentId = NULL_ID
       THEN /\ outcome' = [op |-> "generateSchedule", result |-> "NoActiveTournament"]
            /\ UNCHANGED matches
       ELSE \E teamsErr, countErr, insErr \in BOOLEAN :
            LET teamIds == SelectSeq(tournamentTeams, LAMBDA t : t # NULL_ID)
            IN CASE teamsErr ->
                    /\ outcome' = [op |-> "generateSchedule", result |-> "StoreError"]
                    /\ UNCHANGED matches
                 [] ~teamsErr /\ InsufficientTeams(teamIds) ->
                    /\ outcome' = [op |-> "generateSchedule", result |-> "InsufficientTeams"]
                    /\ UNCHANGED matches
                 [] ~teamsErr /\ ~InsufficientTeams(teamIds) /\ countErr ->
                    /\ outcome' = [op |-> "generateSchedule", result |-> "StoreError"]
                    /\ UNCHANGED matches
                 [] ~teamsErr /\ ~InsufficientTeams(teamIds) /\ ~countErr /\ Len(matches) > 0 ->
                    /\ outcome' = [op |-> "generateSchedule", result |-> "MatchesExist"]
                    /\ UNCHANGED matches
                 [] ~teamsErr /\ ~InsufficientTeams(teamIds) /\ ~countErr /\ Len(matches) = 0 /\ insErr ->
                    /\ outcome' = [op |-> "generateSchedule", result |-> "StoreError"]
                    /\ UNCHANGED matches
                 [] OTHER ->
                    /\ matches' = [k \in 1..Len(ScheduleRows(teamIds, doubleRoundRobin)) |->
                                      NewMatch(ScheduleRows(teamIds, doubleRoundRobin)[k])]
                    /\ outcome' = [op |-> "generateSchedule",
                                   result |-> IF doubleRoundRobin THEN "Generated2x"
                                              ELSE "Generated"]

resetSchedule ==
    /\ isAdmin(role)
    /\ activeTournamentId # NULL_ID
    /\ UNCHANGED <<role, activeTournamentId, tournamentTeams, doubleRoundRobin>>
    /\ UNCHANGED <<drawVars, fixtureVars, standings, editVars, otherVars>>
    /\ \E ok, err \in BOOLEAN :
        IF ~ok THEN UNCHANGED <<matches, outcome>>
        ELSE IF err
             THEN /\ outcome' = [op |-> "resetSchedule", result |-> "StoreError"]
                  /\ UNCHANGED matches
             ELSE /\ matches' = <<>>
                  /\ outcome' = [op |-> "resetSchedule", result |-> "ok"]

\* the "2x (home/away)" checkbox
setDoubleRoundRobin ==
    /\ doubleRoundRobin' = ~doubleRoundRobin
    /\ UNCHANGED <<role, activeTournamentId, tournamentTeams, matches, outcome>>
    /\ UNCHANGED <<drawVars, fixtureVars, standings, editVars, otherVars>>

InitSchedule ==
    /\ role \in Roles
    /\ activeTournamentId \in {NULL_ID, 1}
    /\ tournamentTeams \in DistinctSeqs(TeamIds, MaxTeams)
    /\ matches = <<>>
    /\ doubleRoundRobin = FALSE
    /\ players = <<>> /\ tournament_players = <<>>
    /\ localStorage = {} /\ rosterLocked = FALSE
    /\ fixtures = <<>> /\ drafts = <<>>
    /\ standings = <<>>
    /\ NoEdit
    /\ OtherIdle
    /\ outcome = NoOutcome

NextSchedule == generateSchedule \/ resetSchedule \/ setDoubleRoundRobin

SpecSchedule == InitSchedule /\ [][NextSchedule]_vars

(***************************************************************************)
(* Roster gate and draw                                                     *)
(***************************************************************************)
MaxPlayers == 3
MaxPool == 3

\* the tables the draw reads: rows of `players` (e-mail = position in name order)
PlayerLists ==
    UNION {[1..n -> {"admin", "player"}] : n \in 0..MaxPlayers}

\* team pools of the draw: pool order is irrelevant to a shuffle, so <<1..k>>
PoolLists == {[i \in 1..k |-> i] : k \in 0..MaxPool}

\* every row of players, whatever its role
AllPlayers == [i \in 1..Len(players) |-> i]

\* players.filter(p => p.role === "player"), as e-mails
onlyPlayers ==
    SelectSeq([i \in 1..Len(players) |-> i], LAMBDA e : players[e] = "player")

\* [a[i], a[j]] = [a[j], a[i]]  (1-based positions)
SwapOverwrite(a, i, j) == [a EXCEPT ![i] = a[j]]
Swap(a, i, j) == [a EXCEPT ![i] = a[j], ![j] = a[i]]

\* the values j = Math.floor(Math.random() * (i + 1)) can take, for each i
RandomChoices(n) ==
    {js \in [1..(n - 1) -> 0..(n - 1)] : \A i \in 1..(n - 1) : js[i] <= i}

RECURSIVE ShuffleFrom(_, _, _)
\* for (let i = a.length - 1; i > 0; i--) swap a[i], a[js[i]]  (0-based i)
ShuffleFrom(a, i, js) ==
    IF i <= 0 THEN a
    ELSE ShuffleFrom(Swap(a, i + 1, js[i] + 1), i - 1, js)

shuffle(arr, js) == ShuffleFrom(arr, Len(arr) - 1, js)

\* arr.slice(0, n)
SliceTo(arr, n) == SubSeq(arr, 1, IF n < Len(arr) THEN n ELSE Len(arr))

\* the rows the draw inserts, for the random choices js
DrawRows(js) ==
    LET shuffledTeams == SliceTo(shuffle(tournamentTeams, js), Len(onlyPlayers))
        ps == SliceTo(onlyPlayers, Len(shuffledTeams))
    IN [idx \in 1..Len(ps) |->
           [tournament_id |-> activeTournamentId,
            player_email |-> ps[idx],
            team_id |-> shuffledTeams[idx]]]

DeleteNoDraw(tid) == tournament_players
\* from("tournament_players").delete().eq("tournament_id", tid)
DeleteDrawOf(tid) == SelectSeq(tournament_players, LAMBDA r : r.tournament_id # tid)

\* loadTournamentPlayers: the stored assignments of one tournament
DrawOf(tid) == SelectSeq(tournament_players, LAMBDA r : r.tournament_id = tid)

\* the check `if (onlyPlayers.length < 2)` of the draw
TooFewPlayers == Len(onlyPlayers) < 2

PoolTooSmallOffByOne == Len(tournamentTeams) + 1 < Len(onlyPlayers)
\* the check `if (tournamentTeams.length < onlyPlayers.length)` of the draw
PoolTooSmall == Len(tournamentTeams) < Len(onlyPlayers)

\* the check `if (!rosterLocked)` of the draw
DrawGateAlwaysOpen == TRUE
DrawGateOpen == rosterLocked

\* the button "Lock roster", rendered while the roster is not locked
lockRoster ==
    /\ ~rosterLocked
    /\ isAdmin(role)
    /\ activeTournamentId # NULL_ID
    /\ UNCHANGED <<role, activeTournamentId, tournamentTeams, players, tournament_players>>
    /\ UNCHANGED <<scheduleVars, fixtureVars, standings, editVars, otherVars>>
    /\ IF Len(onlyPlayers) < 2
       THEN /\ outcome' = [op |-> "lockRoster", result |-> "RosterTooSmall"]
            /\ UNCHANGED <<localStorage, rosterLocked>>
       ELSE \E ok \in BOOLEAN :
            IF ~ok THEN UNCHANGED <<localStorage, rosterLocked, outcome>>
            ELSE /\ localStorage' = localStorage \cup {activeTournamentId}
                 /\ rosterLocked' = TRUE
                 /\ outcome' = [op |-> "lockRoster", result |-> "ok"]

unlockRosterDiscardsDraw ==
    /\ rosterLocked
    /\ isAdmin(role)
    /\ activeTournamentId # NULL_ID
    /\ UNCHANGED <<role, activeTournamentId, tournamentTeams, players>>
    /\ UNCHANGED <<scheduleVars, fixtureVars, standings, editVars, otherVars>>
    /\ \E ok \in BOOLEAN :
        IF ~ok THEN UNCHANGED <<localStorage, rosterLocked, outcome, tournament_players>>
        ELSE /\ localStorage' = localStorage \ {activeTournamentId}
             /\ rosterLocked' = FALSE
             /\ tournament_players' = DeleteDrawOf(activeTournamentId)
             /\ outcome' = [op |-> "unlockRoster", result |-> "ok"]

\* the button "Unlock", rendered while the roster is locked
unlockRoster ==
    /\ rosterLocked
    /\ isAdmin(role)
    /\ activeTournamentId # NULL_ID
    /\ UNCHANGED <<role, activeTournamentId, tournamentTeams, players, tournament_players>>
    /\ UNCHANGED <<scheduleVars, fixtureVars, standings, editVars, otherVars>>
    /\ \E ok \in BOOLEAN :
        IF ~ok THEN UNCHANGED <<localStorage, rosterLocked, outcome>>
        ELSE /\ localStorage' = localStorage \ {activeTournamentId}
             /\ rosterLocked' = FALSE
             /\ outcome' = [op |-> "unlockRoster", result |-> "ok"]

resetDraw ==
    /\ isAdmin(role)
    /\ activeTournamentId # NULL_ID
    /\ UNCHANGED <<role, activeTournamentId, tournamentTeams, players, localStorage, rosterLocked>>
    /\ UNCHANGED <<scheduleVars, fixtureVars, standings, editVars, otherVars>>
    /\ \E ok, err \in BOOLEAN :
        IF ~ok THEN UNCHANGED <<tournament_players, outcome>>
        ELSE IF err
             THEN /\ outcome' = [op |-> "resetDraw", result |-> "StoreError"]
                  /\ UNCHANGED tournament_players
             ELSE /\ tournament_players' = DeleteDrawOf(activeTournamentId)
                  /\ outcome' = [op |-> "resetDraw", result |-> "ok"]

drawDeletesBeforePoolCheck ==
    /\ isAdmin(role)
    /\ UNCHANGED <<role, activeTournamentId, tournamentTeams, players, localStorage, rosterLocked>>
    /\ UNCHANGED <<scheduleVars, fixtureVars, standings, editVars, otherVars>>
    /\ CASE activeTournamentId = NULL_ID ->
            /\ outcome' = [op |-> "draw", result |-> "NoActiveTournament"]
            /\ UNCHANGED tournament_players
         [] activeTournamentId # NULL_ID /\ ~DrawGateOpen ->
            /\ outcome' = [op |-> "draw", result |-> "RosterNotLocked"]
            /\ UNCHANGED tournament_players
         [] activeTournamentId # NULL_ID /\ DrawGateOpen /\ TooFewPlayers ->
            /\ outcome' = [op |-> "draw", result |-> "TooFewPlayers"]
            /\ UNCHANGED tournament_players
         [] activeTournamentId # NULL_ID /\ DrawGateOpen /\ ~TooFewPlayers
                /\ PoolTooSmall ->
            /\ outcome' = [op |-> "draw", result |-> "InsufficientTeamsForPlayers"]
            /\ tournament_players' = DeleteDrawOf(activeTournamentId)
         [] OTHER ->
            \E delErr, insErr \in BOOLEAN, js \in RandomChoices(Len(tournamentTeams)) :
                IF delErr
                THEN /\ outcome' = [op |-> "draw", result |-> "DeleteError"]
                     /\ UNCHANGED tournament_players
                ELSE IF insErr
                     THEN /\ tournament_players' = DeleteDrawOf(activeTournamentId)
                          /\ outcome' = [op |-> "draw", result |-> "InsertError"]
                     ELSE /\ tournament_players' = DeleteDrawOf(activeTournamentId) \o DrawRows(js)
                          /\ outcome' = [op |-> "draw", result |-> "ok"]

drawTeamsForTournament ==
    /\ isAdmin(role)
    /\ UNCHANGED <<role, activeTournamentId, tournamentTeams, players, localStorage, rosterLocked>>
    /\ UNCHANGED <<scheduleVars, fixtureVars, standings, editVars, otherVars>>
    /\ CASE activeTournamentId = NULL_ID ->
            /\ outcome' = [op |-> "draw", result |-> "NoActiveTournament"]
            /\ UNCHANGED tournament_players
         [] activeTournamentId # NULL_ID /\ ~DrawGateOpen ->
            /\ outcome' = [op |-> "draw", result |-> "RosterNotLocked"]
            /\ UNCHANGED tournament_players
         [] activeTournamentId # NULL_ID /\ DrawGateOpen /\ TooFewPlayers ->
            /\ outcome' = [op |-> "draw", result |-> "TooFewPlayers"]
            /\ UNCHANGED tournament_players
         [] activeTournamentId # NULL_ID /\ DrawGateOpen /\ ~TooFewPlayers
                /\ PoolTooSmall ->
            /\ outcome' = [op |-> "draw", result |-> "InsufficientTeamsForPlayers"]
            /\ UNCHANGED tournament_players
         [] OTHER ->
            \E delErr, insErr \in BOOLEAN, js \in RandomChoices(Len(tournamentTeams)) :
                IF delErr
                THEN /\ outcome' = [op |-> "draw", result |-> "DeleteError"]
                     /\ UNCHANGED tournament_players
                ELSE IF insErr
                     THEN /\ tournament_players' = DeleteDrawOf(activeTournamentId)
                          /\ outcome' = [op |-> "draw", result |-> "InsertError"]
                     ELSE /\ tournament_players' = DeleteDrawOf(activeTournamentId) \o DrawRows(js)
                          /\ outcome' = [op |-> "draw", result |-> "ok"]

InitDraw ==
    /\ role \in Roles
    /\ activeTournamentId \in {NULL_ID, 1}
    /\ tournamentTeams \in PoolLists
    /\ players \in PlayerLists
    /\ tournament_players = <<>>
    /\ localStorage = {}
    /\ rosterLocked = FALSE
    /\ matches = <<>> /\ doubleRoundRobin = FALSE
    /\ fixtures = <<>> /\ drafts = <<>>
    /\ standings = <<>>
    /\ NoEdit
    /\ OtherIdle
    /\ outcome = NoOutcome

NextDraw == lockRoster \/ unlockRoster \/ resetDraw \/ drawTeamsForTournament

SpecDraw == InitDraw /\ [][NextDraw]_vars

(***************************************************************************)
(* Two-round fixtures: ScheduleCard drafts, handleSaveScheduleRound1 and    *)
(* saveRound1AndGenerateRound2                                              *)
(***************************************************************************)
MaxFixtureTeams == 4

\* a whitespace-only id string; "" and null are NULL_ID
BLANK == -2

\* (s ?? "").trim() on an id: team ids carry no whitespace
TrimId(x) == IF x = BLANK THEN NULL_ID ELSE x

\* team pools of the fixtures card, <<1..k>>
FixturePools == {[i \in 1..k |-> i] : k \in 0..MaxFixtureTeams}

\* ScheduleCard's initial drafts: floor(teams / 2) rows numbered i + 1, both
\* selects on ""
BlankDrafts ==
    [i \in 1..(Len(tournamentTeams) \div 2) |->
        [match_number |-> i, home_team_id |-> NULL_ID, away_team_id |-> NULL_ID]]

\* the values of a select: "" or one of the tournament's teams
DraftOptions == {NULL_ID} \cup Range(tournamentTeams)

\* handleSaveScheduleRound1: map (id || "") then filter (home && away)
HandlerCleaned(ds) ==
    SelectSeq(ds, LAMBDA d : d.home_team_id # NULL_ID /\ d.away_team_id # NULL_ID)

\* saveRound1AndGenerateRound2: cleaned = drafts.map(trim)
LibCleaned(ds) ==
    [k \in 1..Len(ds) |->
        [match_number |-> ds[k].match_number,
         home_team_id |-> TrimId(ds[k].home_team_id),
         away_team_id |-> TrimId(ds[k].away_team_id)]]

RECURSIVE FirstInvalid(_, _)
\* the validation loop: the first draft that is incomplete or self-paired
FirstInvalid(cleaned, k) ==
    IF k > Len(cleaned) THEN "none"
    ELSE IF cleaned[k].home_team_id = NULL_ID \/ cleaned[k].away_team_id = NULL_ID
         THEN "IncompletePairing"
    ELSE IF cleaned[k].home_team_id = cleaned[k].away_team_id
         THEN "SelfPairing"
    ELSE FirstInvalid(cleaned, k + 1)

\* cleaned.flatMap(d => [d.home_team_id, d.away_team_id])
UsedHomeOnly(cleaned) == [k \in 1..Len(cleaned) |-> cleaned[k].home_team_id]
Used(cleaned) ==
    [k \in 1..(2 * Len(cleaned)) |->
        IF k % 2 = 1 THEN cleaned[(k + 1) \div 2].home_team_id
        ELSE cleaned[k \div 2].away_team_id]

\* Array.from(new Set(arr)).length
UniqLength(arr) == Cardinality(Range(arr))

\* which error saveRound1AndGenerateRound2 throws before touching the store
Validate(cleaned) ==
    IF FirstInvalid(cleaned, 1) # "none" THEN FirstInvalid(cleaned, 1)
    ELSE IF UniqLength(Used(cleaned)) # Len(Used(cleaned)) THEN "DuplicateTeamUsage"
    ELSE "ok"

Round1Rows(tid, cleaned) ==
    [k \in 1..Len(cleaned) |->
        [tournament_id |-> tid, round_number |-> 1,
         match_number |-> cleaned[k].match_number,
         home_team_id |-> cleaned[k].home_team_id,
         away_team_id |-> cleaned[k].away_team_id,
         is_bye |-> FALSE, source |-> "manual"]]

Round2RowsNoSwap(tid, cleaned) ==
    [k \in 1..Len(cleaned) |->
        [tournament_id |-> tid, round_number |-> 2,
         match_number |-> cleaned[k].match_number,
         home_team_id |-> cleaned[k].home_team_id,
         away_team_id |-> cleaned[k].away_team_id,
         is_bye |-> FALSE, source |-> "auto_reverse"]]
Round2Rows(tid, cleaned) ==
    [k \in 1..Len(cleaned) |->
        [tournament_id |-> tid, round_number |-> 2,
         match_number |-> cleaned[k].match_number,
         home_team_id |-> cleaned[k].away_team_id,
         away_team_id |-> cleaned[k].home_team_id,
         is_bye |-> FALSE, source |-> "auto_reverse"]]

DeleteNothing(tid) == fixtures
\* from("fixtures").delete().eq("tournament_id", tid)
DeleteFixturesOf(tid) == SelectSeq(fixtures, LAMBDA f : f.tournament_id # tid)

\* loadFixtures: the stored fixtures of one tournament
FixturesOf(tid) == SelectSeq(fixtures, LAMBDA f : f.tournament_id = tid)

\* ScheduleCard: scheduleLocked = round1.length > 0
scheduleLocked ==
    \E k \in 1..Len(fixtures) :
        fixtures[k].tournament_id = activeTournamentId /\ fixtures[k].round_number = 1

\* ScheduleCard: the selects are rendered for an active tournament with at
\* least 2 teams and no stored round 1
DraftsEditable ==
    activeTournamentId # NULL_ID /\ Len(tournamentTeams) >= 2 /\ ~scheduleLocked

\* setDraft(idx, {home_team_id: v}) / setDraft(idx, {away_team_id: v})
setDraft ==
    /\ DraftsEditable
    /\ UNCHANGED <<role, activeTournamentId, tournamentTeams, fixtures>>
    /\ UNCHANGED <<scheduleVars, drawVars, standings, editVars, otherVars>>
    /\ \E idx \in 1..Len(drafts), v \in DraftOptions :
        \/ drafts' = [drafts EXCEPT ![idx].home_team_id = v]
        \/ drafts' = [drafts EXCEPT ![idx].away_team_id = v]
    /\ outcome' = [op |-> "setDraft", result |-> "ok"]

\* the button "Sacuvaj Kolo 1 + generisi Kolo 2": onSaveRound1(drafts)
handleSaveScheduleRound1 ==
    /\ isAdmin(role)
    /\ DraftsEditable
    /\ UNCHANGED <<role, activeTournamentId, tournamentTeams, drafts>>
    /\ UNCHANGED <<scheduleVars, drawVars, standings, editVars, otherVars>>
    /\ LET cleaned == HandlerCleaned(drafts)
           libCleaned == LibCleaned(cleaned)
       IN CASE Len(cleaned) = 0 ->
               /\ outcome' = [op |-> "saveRound1", result |-> "NoMatches"]
               /\ UNCHANGED fixtures
            [] Len(cleaned) # 0 /\ Validate(libCleaned) # "ok" ->
               /\ outcome' = [op |-> "saveRound1", result |-> Validate(libCleaned)]
               /\ UNCHANGED fixtures
            [] OTHER ->
               \E delErr, insErr \in BOOLEAN :
                   IF delErr
                   THEN /\ outcome' = [op |-> "saveRound1", result |-> "DeleteError"]
                        /\ UNCHANGED fixtures
                   ELSE IF insErr
                        THEN /\ outcome' = [op |-> "saveRound1", result |-> "InsertError"]
                             /\ fixtures' = DeleteFixturesOf(activeTournamentId)
                        ELSE /\ outcome' = [op |-> "saveRound1", result |-> "ok"]
                             /\ fixtures' = DeleteFixturesOf(activeTournamentId)
                                              \o Round1Rows(activeTournamentId, libCleaned)
                                              \o Round2Rows(activeTournamentId, libCleaned)

\* the button "Reset fixtures" (shown once round 1 is stored)
resetFixtures ==
    /\ isAdmin(role)
    /\ activeTournamentId # NULL_ID
    /\ scheduleLocked
    /\ UNCHANGED <<role, activeTournamentId, tournamentTeams, drafts>>
    /\ UNCHANGED <<scheduleVars, drawVars, standings, editVars, otherVars>>
    /\ \E ok, err \in BOOLEAN :
        IF ~ok THEN UNCHANGED <<fixtures, outcome>>
        ELSE IF err
             THEN /\ outcome' = [op |-> "resetFixtures", result |-> "StoreError"]
                  /\ UNCHANGED fixtures
             ELSE /\ fixtures' = DeleteFixturesOf(activeTournamentId)
                  /\ outcome' = [op |-> "resetFixtures", result |-> "ok"]

\* a fixture of another tournament (id 2) that is already stored
OtherTournamentFixture ==
    [tournament_id |-> 2, round_number |-> 1, match_number |-> 1,
     home_team_id |-> 1, away_team_id |-> 2, is_bye |-> FALSE, source |-> "manual"]

InitFixtures ==
    /\ role \in Roles
    /\ activeTournamentId \in {NULL_ID, 1}
    /\ tournamentTeams \in FixturePools
    /\ fixtures \in {<<>>, <<OtherTournamentFixture>>}
    /\ drafts = BlankDrafts
    /\ players = <<>> /\ tournament_players = <<>>
    /\ localStorage = {} /\ rosterLocked = FALSE
    /\ matches = <<>> /\ doubleRoundRobin = FALSE
    /\ standings = <<>>
    /\ NoEdit
    /\ OtherIdle
    /\ outcome = NoOutcome

NextFixtures == setDraft \/ handleSaveScheduleRound1 \/ resetFixtures

SpecFixtures == InitFixtures /\ [][NextFixtures]_vars

(***************************************************************************)
(* saveRound1AndGenerateRound2 called on any table and any drafts          *)
(***************************************************************************)
MaxLibDrafts == 2
MaxLibTeams == 3

\* drafts as a caller may pass them: numbered i + 1, each id "" or a team
LibDraftRows(i) ==
    {[match_number |-> i, home_team_id |-> h, away_team_id |-> a] :
        h \in 0..MaxLibTeams, a \in 0..MaxLibTeams}

RECURSIVE LibDraftLists(_)
LibDraftLists(n) ==
    IF n = 0 THEN {<<>>}
    ELSE LibDraftLists(n - 1)
            \cup {Append(ds, d) : ds \in {x \in LibDraftLists(n - 1) : Len(x) = n - 1},
                                  d \in LibDraftRows(n)}

\* rows already stored for the tournament by an earlier submission
StaleRound1 ==
    [tournament_id |-> 1, round_number |-> 1, match_number |-> 2,
     home_team_id |-> 3, away_team_id |-> 1, is_bye |-> FALSE, source |-> "manual"]

StaleRound2 ==
    [tournament_id |-> 1, round_number |-> 2, match_number |-> 2,
     home_team_id |-> 1, away_team_id |-> 3, is_bye |-> FALSE,
     source |-> "auto_reverse"]

\* contents of the fixtures table before the call
StoredTables ==
    {<<>>, <<OtherTournamentFixture>>, <<StaleRound1, StaleRound2>>,
     <<StaleRound1, OtherTournamentFixture, StaleRound2>>}

\* saveRound1AndGenerateRound2(supabase, activeTournamentId, drafts)
saveRound1AndGenerateRound2 ==
    /\ activeTournamentId # NULL_ID
    /\ UNCHANGED <<role, activeTournamentId, tournamentTeams, drafts>>
    /\ UNCHANGED <<scheduleVars, drawVars, standings, editVars, otherVars>>
    /\ LET cleaned == LibCleaned(drafts)
       IN IF Validate(cleaned) # "ok"
          THEN /\ outcome' = [op |-> "saveRound1AndGenerateRound2",
                              result |-> Validate(cleaned)]
               /\ UNCHANGED fixtures
          ELSE \E delErr, insErr \in BOOLEAN :
                  IF delErr
                  THEN /\ outcome' = [op |-> "saveRound1AndGenerateRound2",
                                      result |-> "DeleteError"]
                       /\ UNCHANGED fixtures
                  ELSE IF insErr
                       THEN /\ outcome' = [op |-> "saveRound1AndGenerateRound2",
                                           result |-> "InsertError"]
                            /\ fixtures' = DeleteFixturesOf(activeTournamentId)
                       ELSE /\ outcome' = [op |-> "saveRound1AndGenerateRound2",
                                           result |-> "ok"]
                            /\ fixtures' = DeleteFixturesOf(activeTournamentId)
                                             \o Round1Rows(activeTournamentId, cleaned)
                                             \o Round2Rows(activeTournamentId, cleaned)

InitFixtureLib ==
    /\ role = "admin"
    /\ activeTournamentId = 1
    /\ tournamentTeams = [i \in 1..MaxLibTeams |-> i]
    /\ fixtures \in StoredTables
    /\ drafts \in LibDraftLists(MaxLibDrafts)
    /\ players = <<>> /\ tournament_players = <<>>
    /\ localStorage = {} /\ rosterLocked = FALSE
    /\ matches = <<>> /\ doubleRoundRobin = FALSE
    /\ standings = <<>>
    /\ NoEdit
    /\ OtherIdle
    /\ outcome = NoOutcome

NextFixtureLib == saveRound1AndGenerateRound2

SpecFixtureLib == InitFixtureLib /\ [][NextFixtureLib]_vars

(***************************************************************************)
(* Roster gate over several tournaments                                    *)
(***************************************************************************)
MaxTournaments == 2

TournamentIds == 1..MaxTournaments

\* the team pool the store holds for tournament t (loadTournamentTeams):
\* three teams for tournament 1, two for every other
StoredPool(t) == IF t = 1 THEN <<1, 2, 3>> ELSE <<1, 2>>

\* the matches the store holds for tournament t (loadMatches)
StoredMatches(t) ==
    IF t = 1
    THEN <<NewMatch([round |-> 1, home_team_id |-> 1, away_team_id |-> 2])>>
    ELSE <<>>

setActiveTournamentIdKeepsGate ==
    /\ \E t \in TournamentIds \cup {NULL_ID} :
        /\ activeTournamentId' = t
        /\ IF t = NULL_ID
           THEN UNCHANGED <<tournamentTeams, matches>>
           ELSE /\ tournamentTeams' = StoredPool(t)
                /\ matches' = StoredMatches(t)
    /\ outcome' = [op |-> "setActiveTournamentId", result |-> "ok"]
    /\ UNCHANGED <<role, players, tournament_players, localStorage, doubleRoundRobin>>
    /\ UNCHANGED <<rosterLocked, fixtureVars, standings, editVars, otherVars>>

\* setActiveTournamentId(t) with the effects on [activeTournamentId]: the
\* roster-lock effect reads localStorage, the load effect reloads the
\* tournament's data (skipped when t is null)
setActiveTournamentId ==
    /\ \E t \in TournamentIds \cup {NULL_ID} :
        /\ activeTournamentId' = t
        /\ rosterLocked' = (t # NULL_ID /\ t \in localStorage)
        /\ IF t = NULL_ID
           THEN UNCHANGED <<tournamentTeams, matches>>
           ELSE /\ tournamentTeams' = StoredPool(t)
                /\ matches' = StoredMatches(t)
    /\ outcome' = [op |-> "setActiveTournamentId", result |-> "ok"]
    /\ UNCHANGED <<role, players, tournament_players, localStorage, doubleRoundRobin>>
    /\ UNCHANGED <<fixtureVars, standings, editVars, otherVars>>

\* the rosters the gate is exercised on: none, one, two and three players,
\* with and without admin rows
GateRosters ==
    {<<>>, <<"player">>, <<"admin", "player">>, <<"player", "player">>,
     <<"admin", "admin", "player">>, <<"admin", "player", "player">>,
     <<"player", "player", "player">>}

InitGate ==
    /\ role \in Roles
    /\ activeTournamentId \in TournamentIds \cup {NULL_ID}
    /\ tournamentTeams =
          IF activeTournamentId = NULL_ID THEN <<>> ELSE StoredPool(activeTournamentId)
    /\ matches =
          IF activeTournamentId = NULL_ID THEN <<>> ELSE StoredMatches(activeTournamentId)
    /\ players \in GateRosters
    /\ tournament_players = <<>>
    /\ localStorage = {}
    /\ rosterLocked = FALSE
    /\ doubleRoundRobin = FALSE
    /\ fixtures = <<StaleRound1, OtherTournamentFixture, StaleRound2>>
    /\ drafts = <<>>
    /\ standings = <<>>
    /\ NoEdit
    /\ OtherIdle
    /\ outcome = NoOutcome

NextGate ==
    \/ setActiveTournamentId
    \/ lockRoster
    \/ unlockRoster
    \/ resetDraw
    \/ drawTeamsForTournament

SpecGate == InitGate /\ [][NextGate]_vars

(***************************************************************************)
(* Standings (useMemo `standings`)                                          *)
(***************************************************************************)
MaxScore == 1
MaxStandingTeams == 3

StandingTeamIds == 1..MaxStandingTeams

\* team pools of the standings, in created_at order: for each size the ids
\* ascending and descending, so that pool order differs from id order
StandingPools ==
    UNION {{[i \in 1..k |-> i], [i \in 1..k |-> k + 1 - i]} : k \in 0..MaxStandingTeams}

\* (player1_score, player2_score, played_at) as saveMatchResult and
\* clearMatchResult leave them: all three set or all three null
MatchResults ==
    {<<NULL_SCORE, NULL_SCORE, NULL_TS>>}
        \cup {<<hg, ag, 1>> : hg \in 0..MaxScore, ag \in 0..MaxScore}

\* rows of `matches`: team ids may be null; two different teams otherwise
MatchRows ==
    {[round |-> 1, home_team_id |-> h, away_team_id |-> a,
      player1_email |-> NULL_ID, player2_email |-> NULL_ID,
      player1_score |-> r[1], player2_score |-> r[2], played_at |-> r[3]] :
        <<h, a>> \in {p \in (StandingTeamIds \cup {NULL_ID}) \X (StandingTeamIds \cup {NULL_ID}) :
                        p[1] # p[2] \/ p[1] = NULL_ID},
        r \in MatchResults}

MatchLists == {<<>>} \cup {<<m>> : m \in MatchRows} \cup {<<m1, m2>> : m1, m2 \in MatchRows}

isPlayed(m) == m.played_at # NULL_TS

RECURSIVE SetOrder(_)
\* new Set(tournamentTeams.map(x => x.team_id)): first occurrences, in order
SetOrder(ids) ==
    IF ids = <<>> THEN <<>>
    ELSE LET front == SetOrder(SubSeq(ids, 1, Len(ids) - 1))
             last == ids[Len(ids)]
         IN IF last \in Range(front) THEN front ELSE Append(front, last)

ZeroRow(teamId) ==
    [team_id |-> teamId, played |-> 0, wins |-> 0, draws |-> 0, losses |-> 0,
     gf |-> 0, ga |-> 0, gd |-> 0, pts |-> 0]

\* the guards of the loop over matches: which matches are tallied
IsTalliedZeroIsFalsy(map, m) ==
    /\ m.home_team_id # NULL_ID /\ m.away_team_id # NULL_ID
    /\ isPlayed(m)
    /\ m.player1_score > 0 /\ m.player2_score > 0
    /\ m.home_team_id \in DOMAIN map /\ m.away_team_id \in DOMAIN map
IsTallied(map, m) ==
    /\ m.home_team_id # NULL_ID /\ m.away_team_id # NULL_ID
    /\ isPlayed(m)
    /\ m.player1_score # NULL_SCORE /\ m.player2_score # NULL_SCORE
    /\ m.home_team_id \in DOMAIN map /\ m.away_team_id \in DOMAIN map

\* the body of the loop over matches for one tallied match, in the order of
\* its statements: played and goals of both sides ...
TallyGoalsAwayKeepsHomeGoals(map, m) ==
    LET h == m.home_team_id
        a == m.away_team_id
        m1 == [map EXCEPT ![h].played = @ + 1]
        m2 == [m1 EXCEPT ![a].played = @ + 1]
        m3 == [m2 EXCEPT ![h].gf = @ + m.player1_score, ![h].ga = @ + m.player2_score]
    IN [m3 EXCEPT ![a].gf = @ + m.player1_score, ![a].ga = @ + m.player2_score]
TallyGoals(map, m) ==
    LET h == m.home_team_id
        a == m.away_team_id
        m1 == [map EXCEPT ![h].played = @ + 1]
        m2 == [m1 EXCEPT ![a].played = @ + 1]
        m3 == [m2 EXCEPT ![h].gf = @ + m.player1_score, ![h].ga = @ + m.player2_score]
    IN [m3 EXCEPT ![a].gf = @ + m.player2_score, ![a].ga = @ + m.player1_score]

\* ... then wins, draws, losses and points
TallyResultDrawPaysHomeOnly(map, m) ==
    LET h == m.home_team_id
        a == m.away_team_id
    IN IF m.player1_score > m.player2_score
       THEN [[[map EXCEPT ![h].wins = @ + 1] EXCEPT ![a].losses = @ + 1]
                EXCEPT ![h].pts = @ + 3]
       ELSE IF m.player1_score < m.player2_score
       THEN [[[map EXCEPT ![a].wins = @ + 1] EXCEPT ![h].losses = @ + 1]
                EXCEPT ![a].pts = @ + 3]
       ELSE [[[map EXCEPT ![h].draws = @ + 1] EXCEPT ![a].draws = @ + 1]
                EXCEPT ![h].pts = @ + 1]
TallyResult(map, m) ==
    LET h == m.home_team_id
        a == m.away_team_id
    IN IF m.player1_score > m.player2_score
       THEN [[[map EXCEPT ![h].wins = @ + 1] EXCEPT ![a].losses = @ + 1]
                EXCEPT ![h].pts = @ + 3]
       ELSE IF m.player1_score < m.player2_score
       THEN [[[map EXCEPT ![a].wins = @ + 1] EXCEPT ![h].losses = @ + 1]
                EXCEPT ![a].pts = @ + 3]
       ELSE [[[[map EXCEPT ![h].draws = @ + 1] EXCEPT ![a].draws = @ + 1]
                EXCEPT ![h].pts = @ + 1] EXCEPT ![a].pts = @ + 1]

TallyMatch(map, m) == TallyResult(TallyGoals(map, m), m)

RECURSIVE TallyFrom(_, _, _)
\* for (const m of matches) { ... }
TallyFrom(map, ms, k) ==
    IF k > Len(ms) THEN map
    ELSE TallyFrom(IF IsTallied(map, ms[k]) THEN TallyMatch(map, ms[k]) ELSE map,
                   ms, k + 1)

\* the comparator of list.sort: negative when a sorts before b
CompareNoGoalsFor(a, b) ==
    IF b.pts # a.pts THEN b.pts - a.pts
    ELSE b.gd - a.gd
Compare(a, b) ==
    IF b.pts # a.pts THEN b.pts - a.pts
    ELSE IF b.gd # a.gd THEN b.gd - a.gd
    ELSE b.gf - a.gf

RECURSIVE InsertRow(_, _)
\* Array.prototype.sort is stable: a row goes after every row it does not
\* strictly precede
InsertRow(sorted, x) ==
    IF sorted = <<>> THEN <<x>>
    ELSE IF Compare(x, sorted[1]) < 0 THEN <<x>> \o sorted
    ELSE <<sorted[1]>> \o InsertRow(Tail(sorted), x)

RECURSIVE SortRows(_)
SortRows(list) ==
    IF list = <<>> THEN <<>>
    ELSE InsertRow(SortRows(SubSeq(list, 1, Len(list) - 1)), list[Len(list)])

\* the value of the memo for a team pool and a match list
computeStandings(teams, ms) ==
    LET order == SetOrder(teams)
        seeded == [t \in Range(order) |-> ZeroRow(t)]
        map == TallyFrom(seeded, ms, 1)
        list == [k \in 1..Len(order) |->
                    [map[order[k]] EXCEPT !.gd = map[order[k]].gf - map[order[k]].ga]]
    IN SortRows(list)

\* a render: the memo is recomputed from its dependencies
renderStandings ==
    /\ standings' = computeStandings(tournamentTeams, matches)
    /\ outcome' = [op |-> "renderStandings", result |-> "ok"]
    /\ UNCHANGED <<role, activeTournamentId, tournamentTeams, matches, doubleRoundRobin>>
    /\ UNCHANGED <<drawVars, fixtureVars, editVars, otherVars>>

InitStandings ==
    /\ role = "admin"
    /\ activeTournamentId = 1
    /\ tournamentTeams \in StandingPools
    /\ matches \in MatchLists
    /\ standings = <<>>
    /\ NoEdit
    /\ OtherIdle
    /\ doubleRoundRobin = FALSE
    /\ players = <<>> /\ tournament_players = <<>>
    /\ localStorage = {} /\ rosterLocked = FALSE
    /\ fixtures = <<>> /\ drafts = <<>>
    /\ outcome = NoOutcome

NextStandings == renderStandings

SpecStandings == InitStandings /\ [][NextStandings]_vars

(***************************************************************************)
(* Match results (renderMatchRow score editing, saveMatchResult,           *)
(* clearMatchResult)                                                        *)
(***************************************************************************)
MinGoals == 0
MaxGoals == 99

\* numbers an admin may enter, in tenths: -1, 1, 2.5, 100
TypedTenths == {-10, 10, 25, 1000}

\* texts an input may receive: "", whitespace, a non-numeric text, a number
TypedTexts ==
    {[kind |-> k, tenths |-> 0] : k \in {"empty", "blank", "nan"}}
        \cup {[kind |-> "num", tenths |-> x] : x \in TypedTenths}

\* Number.isNaN(Number(v))
IsNaNText(v) == v.kind = "nan"

\* Number(v), in tenths: "" and whitespace convert to 0
NumberTenths(v) == IF v.kind = "num" THEN v.tenths ELSE 0

\* Math.trunc, from tenths to an integer
Trunc(x) == IF x >= 0 THEN x \div 10 ELSE -((-x) \div 10)

Max2(a, b) == IF a >= b THEN a ELSE b

Min2(a, b) == IF a <= b THEN a ELSE b

clampIntNoMax(v, min, max) ==
    IF IsNaNText(v) THEN EMPTY_TEXT
    ELSE Max2(min, Trunc(NumberTenths(v)))
\* clampInt(v, min, max): "" for NaN, else String(max(min, min(max, trunc(n))))
clampInt(v, min, max) ==
    IF IsNaNText(v) THEN EMPTY_TEXT
    ELSE Max2(min, Min2(max, Trunc(NumberTenths(v))))

\* m.player1_score === null ? "" : String(m.player1_score)
ScoreText(score) == IF score = NULL_SCORE THEN EMPTY_TEXT ELSE score

\* text.trim() === "" ? null : Number(text), for the texts an input can hold
ScoreOfText(text) == IF text = EMPTY_TEXT THEN NULL_SCORE ELSE text

\* setEditingMatchId(null); setEditHomeGoals(""); setEditAwayGoals("")
ResetEdit ==
    /\ editingMatchId' = NULL_ID
    /\ editHomeGoals' = EMPTY_TEXT
    /\ editAwayGoals' = EMPTY_TEXT
    /\ typed' = <<NoTyped, NoTyped>>

\* the button "Upisi rezultat" of a match row that is not being edited
startEdit ==
    /\ isAdmin(role)
    /\ \E k \in 1..Len(matches) :
        /\ editingMatchId # k
        /\ editingMatchId' = k
        /\ editHomeGoals' = ScoreText(matches[k].player1_score)
        /\ editAwayGoals' = ScoreText(matches[k].player2_score)
    /\ typed' = <<NoTyped, NoTyped>>
    /\ outcome' = [op |-> "startEdit", result |-> "ok"]
    /\ UNCHANGED <<role, activeTournamentId, tournamentTeams, standings>>
    /\ UNCHANGED <<scheduleVars, drawVars, fixtureVars, otherVars>>

\* onChange of the home input: setEditHomeGoals(clampInt(value, 0, 99))
setEditHomeGoals ==
    /\ editingMatchId # NULL_ID
    /\ \E v \in TypedTexts :
        /\ editHomeGoals' = clampInt(v, MinGoals, MaxGoals)
        /\ typed' = <<v, typed[2]>>
    /\ outcome' = [op |-> "setEditHomeGoals", result |-> "ok"]
    /\ UNCHANGED <<role, activeTournamentId, tournamentTeams, standings>>
    /\ UNCHANGED <<scheduleVars, drawVars, fixtureVars, editingMatchId, editAwayGoals, otherVars>>

\* onChange of the away input: setEditAwayGoals(clampInt(value, 0, 99))
setEditAwayGoals ==
    /\ editingMatchId # NULL_ID
    /\ \E v \in TypedTexts :
        /\ editAwayGoals' = clampInt(v, MinGoals, MaxGoals)
        /\ typed' = <<typed[1], v>>
    /\ outcome' = [op |-> "setEditAwayGoals", result |-> "ok"]
    /\ UNCHANGED <<role, activeTournamentId, tournamentTeams, standings>>
    /\ UNCHANGED <<scheduleVars, drawVars, fixtureVars, editingMatchId, editHomeGoals, otherVars>>

\* the button "Otkazi"
cancelEdit ==
    /\ editingMatchId # NULL_ID
    /\ ResetEdit
    /\ outcome' = [op |-> "cancelEdit", result |-> "ok"]
    /\ UNCHANGED <<role, activeTournamentId, tournamentTeams, standings>>
    /\ UNCHANGED <<scheduleVars, drawVars, fixtureVars, otherVars>>

\* the button "Sacuvaj" of the match being edited: saveMatchResult(m.id)
saveMatchResult ==
    /\ isAdmin(role)
    /\ activeTournamentId # NULL_ID
    /\ editingMatchId # NULL_ID
    /\ UNCHANGED <<role, activeTournamentId, tournamentTeams, standings, doubleRoundRobin>>
    /\ UNCHANGED <<drawVars, fixtureVars, otherVars>>
    /\ LET hg == ScoreOfText(editHomeGoals)
           ag == ScoreOfText(editAwayGoals)
       IN IF hg = NULL_SCORE \/ ag = NULL_SCORE
          THEN /\ outcome' = [op |-> "saveMatchResult", result |-> "InvalidScore"]
               /\ UNCHANGED <<matches, editVars>>
          ELSE \E error \in BOOLEAN :
                  IF error
                  THEN /\ outcome' = [op |-> "saveMatchResult", result |-> "StoreError"]
                       /\ UNCHANGED <<matches, editVars>>
                  ELSE /\ matches' = [matches EXCEPT
                                         ![editingMatchId].player1_score = hg,
                                         ![editingMatchId].player2_score = ag,
                                         ![editingMatchId].played_at = 1]
                       /\ ResetEdit
                       /\ outcome' = [op |-> "saveMatchResult", result |-> "ok"]

ClearedRowKeepsPlayedAt(m) ==
    [m EXCEPT !.player1_score = NULL_SCORE, !.player2_score = NULL_SCORE]

\* the row after clearMatchResult's update
ClearedRow(m) ==
    [m EXCEPT !.player1_score = NULL_SCORE,
              !.player2_score = NULL_SCORE,
              !.played_at = NULL_TS]

\* the button "Obrisi" of a played match row that is not being edited
clearMatchResult ==
    /\ isAdmin(role)
    /\ activeTournamentId # NULL_ID
    /\ UNCHANGED <<role, activeTournamentId, tournamentTeams, standings, doubleRoundRobin>>
    /\ UNCHANGED <<drawVars, fixtureVars, editVars, otherVars>>
    /\ \E k \in 1..Len(matches), ok, error \in BOOLEAN :
        /\ isPlayed(matches[k])
        /\ editingMatchId # k
        /\ IF ~ok THEN UNCHANGED <<matches, outcome>>
           ELSE IF error
                THEN /\ outcome' = [op |-> "clearMatchResult", result |-> "StoreError"]
                     /\ UNCHANGED matches
                ELSE /\ matches' = [matches EXCEPT ![k] = ClearedRow(matches[k])]
                     /\ outcome' = [op |-> "clearMatchResult", result |-> "ok"]

\* a tournament of two teams with its double schedule, nothing played
InitResult ==
    /\ role \in Roles
    /\ activeTournamentId = 1
    /\ tournamentTeams = <<1, 2>>
    /\ matches = [k \in 1..2 |-> NewMatch(ScheduleRows(tournamentTeams, TRUE)[k])]
    /\ doubleRoundRobin = TRUE
    /\ players = <<>> /\ tournament_players = <<>>
    /\ localStorage = {} /\ rosterLocked = FALSE
    /\ fixtures = <<>> /\ drafts = <<>>
    /\ standings = <<>>
    /\ NoEdit
    /\ OtherIdle
    /\ outcome = NoOutcome

NextResult ==
    \/ startEdit
    \/ setEditHomeGoals
    \/ setEditAwayGoals
    \/ cancelEdit
    \/ saveMatchResult
    \/ clearMatchResult

SpecResult == InitResult /\ [][NextResult]_vars

(***************************************************************************)
(* The handlers that validate their input, on one dashboard page           *)
(***************************************************************************)
\* assignments stored by an earlier draw of tournament 1
EarlierDraw ==
    <<[tournament_id |-> 1, player_email |-> 1, team_id |-> 2],
      [tournament_id |-> 1, player_email |-> 2, team_id |-> 1]>>

\* drafts of round 1 as they stand in the selects: an incomplete row, a
\* self-pairing, a team used twice, a valid row, a valid row and a blank one
EnteredDrafts ==
    {<<[match_number |-> 1, home_team_id |-> 1, away_team_id |-> NULL_ID]>>,
     <<[match_number |-> 1, home_team_id |-> 2, away_team_id |-> 2]>>,
     <<[match_number |-> 1, home_team_id |-> 1, away_team_id |-> 2],
       [match_number |-> 2, home_team_id |-> 2, away_team_id |-> 3]>>,
     <<[match_number |-> 1, home_team_id |-> 1, away_team_id |-> 2]>>,
     <<[match_number |-> 1, home_team_id |-> 1, away_team_id |-> 2],
       [match_number |-> 2, home_team_id |-> NULL_ID, away_team_id |-> NULL_ID]>>}

\* the roster card: a roster, a pool of two or three teams, the gate as
\* localStorage holds it, with or without an earlier draw
InitRosterCard ==
    /\ players \in GateRosters
    /\ tournamentTeams \in {<<1, 2>>, <<1, 2, 3>>}
    /\ localStorage \in {{}, {1}}
    /\ rosterLocked = (1 \in localStorage)
    /\ tournament_players \in {<<>>, EarlierDraw}
    /\ fixtures = <<StaleRound1, OtherTournamentFixture, StaleRound2>>
    /\ drafts = <<>>
    /\ matches = <<>>

\* the fixtures card with drafts entered
InitFixturesCard ==
    /\ players = <<>>
    /\ tournamentTeams = <<1, 2, 3, 4>>
    /\ localStorage = {} /\ rosterLocked = FALSE
    /\ tournament_players = EarlierDraw
    /\ fixtures \in {<<OtherTournamentFixture>>,
                     <<StaleRound1, OtherTournamentFixture, StaleRound2>>}
    /\ drafts \in EnteredDrafts
    /\ matches = <<>>

\* the matches card with one generated match
InitMatchesCard ==
    /\ players = <<>>
    /\ tournamentTeams = <<1, 2>>
    /\ localStorage = {} /\ rosterLocked = FALSE
    /\ tournament_players = EarlierDraw
    /\ fixtures = <<OtherTournamentFixture>>
    /\ drafts = <<>>
    /\ matches = <<NewMatch([round |-> 1, home_team_id |-> 1, away_team_id |-> 2])>>

InitRefusals ==
    /\ role = "admin"
    /\ activeTournamentId = 1
    /\ doubleRoundRobin = FALSE
    /\ standings = <<>>
    /\ NoEdit
    /\ OtherIdle
    /\ outcome = NoOutcome
    /\ \/ InitRosterCard
       \/ InitFixturesCard
       \/ InitMatchesCard

NextRefusals ==
    \/ lockRoster
    \/ unlockRoster
    \/ drawTeamsForTournament
    \/ handleSaveScheduleRound1
    \/ saveRound1AndGenerateRound2
    \/ startEdit
    \/ setEditHomeGoals
    \/ setEditAwayGoals
    \/ saveMatchResult

SpecRefusals == InitRefusals /\ [][NextRefusals]_vars

(***************************************************************************)
(* Two dashboard pages drawing for the same tournament                     *)
(***************************************************************************)
\* drawTeamsForTournament on page p up to the answer of its delete request:
\* the button is disabled while `drawing`, the checks pass, setDrawing(true)
drawDeleteStep ==
    /\ isAdmin(role)
    /\ activeTournamentId # NULL_ID
    /\ DrawGateOpen /\ ~TooFewPlayers /\ ~PoolTooSmall
    /\ UNCHANGED <<role, activeTournamentId, tournamentTeams, players, localStorage, rosterLocked>>
    /\ UNCHANGED <<scheduleVars, fixtureVars, standings, editVars>>
    /\ UNCHANGED <<tournaments, inviteVars>>
    /\ \E p \in Pages, delErr \in BOOLEAN :
        /\ ~drawing[p]
        /\ IF delErr
           THEN /\ outcome' = [op |-> "draw", result |-> "DeleteError"]
                /\ UNCHANGED <<tournament_players, drawing>>
           ELSE /\ tournament_players' = DeleteDrawOf(activeTournamentId)
                /\ drawing' = [drawing EXCEPT ![p] = TRUE]
                /\ outcome' = [op |-> "draw", result |-> "deleted"]

\* the rest of drawTeamsForTournament on page p: shuffle, insert,
\* setDrawing(false)
drawInsertStep ==
    /\ UNCHANGED <<role, activeTournamentId, tournamentTeams, players, localStorage, rosterLocked>>
    /\ UNCHANGED <<scheduleVars, fixtureVars, standings, editVars>>
    /\ UNCHANGED <<tournaments, inviteVars>>
    /\ \E p \in Pages, insErr \in BOOLEAN, js \in RandomChoices(Len(tournamentTeams)) :
        /\ drawing[p]
        /\ drawing' = [drawing EXCEPT ![p] = FALSE]
        /\ IF insErr
           THEN /\ outcome' = [op |-> "draw", result |-> "InsertError"]
                /\ UNCHANGED tournament_players
           ELSE /\ tournament_players' = tournament_players \o DrawRows(js)
                /\ outcome' = [op |-> "draw", result |-> "ok"]

\* both pages show tournament 1 with its roster locked
InitConcurrentDraw ==
    /\ role = "admin"
    /\ activeTournamentId = 1
    /\ tournamentTeams = <<1, 2, 3>>
    /\ players \in {<<"player", "player">>, <<"player", "player", "player">>}
    /\ tournament_players \in {<<>>, EarlierDraw}
    /\ localStorage = {1}
    /\ rosterLocked = TRUE
    /\ matches = <<>> /\ doubleRoundRobin = FALSE
    /\ fixtures = <<>> /\ drafts = <<>>
    /\ standings = <<>>
    /\ NoEdit
    /\ OtherIdle
    /\ outcome = NoOutcome

NextConcurrentDraw == drawDeleteStep \/ drawInsertStep

SpecConcurrentDraw == InitConcurrentDraw /\ [][NextConcurrentDraw]_vars

(***************************************************************************)
(* Matches generated from the stored fixtures                              *)
(***************************************************************************)
\* fixtures that generate no match: a bye and a row without an away team
ByeFixture ==
    [tournament_id |-> 1, round_number |-> 1, match_number |-> 3,
     home_team_id |-> 3, away_team_id |-> NULL_ID, is_bye |-> TRUE, source |-> "manual"]

HalfFixture ==
    [tournament_id |-> 1, round_number |-> 2, match_number |-> 3,
     home_team_id |-> 2, away_team_id |-> NULL_ID, is_bye |-> FALSE,
     source |-> "auto_reverse"]

\* contents of the fixtures table when matches are generated
GenTables ==
    {<<>>, <<OtherTournamentFixture>>, <<ByeFixture, HalfFixture>>,
     <<StaleRound1, OtherTournamentFixture, StaleRound2>>,
     <<StaleRound2, ByeFixture, OtherTournamentFixture, HalfFixture, StaleRound1>>}

\* the comparator of playable.sort: round_number, then match_number
FixtureBefore(a, b) ==
    \/ a.round_number < b.round_number
    \/ a.round_number = b.round_number /\ a.match_number < b.match_number

RECURSIVE InsertFixture(_, _)
InsertFixture(f, s) ==
    IF s = <<>> THEN <<f>>
    ELSE IF FixtureBefore(f, Head(s)) THEN <<f>> \o s
    ELSE <<Head(s)>> \o InsertFixture(f, Tail(s))

RECURSIVE SortFixtures(_)
\* Array.prototype.sort (stable) with that comparator
SortFixtures(s) ==
    IF s = <<>> THEN <<>>
    ELSE InsertFixture(s[Len(s)], SortFixtures(SubSeq(s, 1, Len(s) - 1)))

\* list.filter(!is_bye).filter(home && away).sort(...)
Playable(tid) ==
    SortFixtures(SelectSeq(FixturesOf(tid),
        LAMBDA f : ~f.is_bye /\ f.home_team_id # NULL_ID /\ f.away_team_id # NULL_ID))

NoMatchesStored == TRUE
\* the check `(count ?? 0) > 0` negated: the tournament has no match
MatchesEmpty == Len(matches) = 0

\* the button "Generisi meceve iz fixtures"
generateMatchesFromFixtures ==
    /\ isAdmin(role)
    /\ activeTournamentId # NULL_ID
    /\ UNCHANGED <<role, activeTournamentId, tournamentTeams, doubleRoundRobin>>
    /\ UNCHANGED <<drawVars, fixtureVars, standings, editVars, otherVars>>
    /\ \E countErr, loadErr, insErr \in BOOLEAN :
        LET playable == Playable(activeTournamentId)
        IN CASE countErr ->
                /\ outcome' = [op |-> "generateMatchesFromFixtures", result |-> "StoreError"]
                /\ UNCHANGED matches
             [] ~countErr /\ ~MatchesEmpty ->
                /\ outcome' = [op |-> "generateMatchesFromFixtures", result |-> "MatchesExist"]
                /\ UNCHANGED matches
             [] ~countErr /\ MatchesEmpty /\ loadErr ->
                /\ outcome' = [op |-> "generateMatchesFromFixtures", result |-> "StoreError"]
                /\ UNCHANGED matches
             [] ~countErr /\ MatchesEmpty /\ ~loadErr /\ Len(playable) = 0 ->
                /\ outcome' = [op |-> "generateMatchesFromFixtures", result |-> "NoFixtures"]
                /\ UNCHANGED matches
             [] ~countErr /\ MatchesEmpty /\ ~loadErr /\ Len(playable) # 0 /\ insErr ->
                /\ outcome' = [op |-> "generateMatchesFromFixtures", result |-> "StoreError"]
                /\ UNCHANGED matches
             [] OTHER ->
                /\ matches' = matches \o
                       [k \in 1..Len(playable) |->
                           NewMatch([round |-> playable[k].round_number,
                                     home_team_id |-> playable[k].home_team_id,
                                     away_team_id |-> playable[k].away_team_id])]
                /\ outcome' = [op |-> "generateMatchesFromFixtures", result |-> "ok"]

InitMatchGen ==
    /\ role = "admin"
    /\ activeTournamentId = 1
    /\ tournamentTeams \in {<<>>, <<1, 2>>, <<1, 2, 3>>}
    /\ matches = <<>>
    /\ doubleRoundRobin = FALSE
    /\ players = <<>> /\ tournament_players = <<>>
    /\ localStorage = {} /\ rosterLocked = FALSE
    /\ fixtures \in GenTables
    /\ drafts = <<>>
    /\ standings = <<>>
    /\ NoEdit
    /\ OtherIdle
    /\ outcome = NoOutcome

NextMatchGen ==
    \/ generateMatchesFromFixtures
    \/ generateSchedule
    \/ resetSchedule
    \/ setDoubleRoundRobin

SpecMatchGen == InitMatchGen /\ [][NextMatchGen]_vars

(***************************************************************************)
(* Players assigned to the matches from the draw                           *)
(***************************************************************************)
\* teamToPlayerEmail.get(team) ?? null: the Map keeps the last row of a team
teamToPlayerEmail(team) ==
    LET rows == SelectSeq(DrawOf(activeTournamentId), LAMBDA tp : tp.team_id = team)
    IN IF rows = <<>> THEN NULL_ID ELSE rows[Len(rows)].player_email

NeedsUpdateHomeOnly(m) ==
    /\ m.home_team_id # NULL_ID /\ m.away_team_id # NULL_ID
    /\ m.player1_email # teamToPlayerEmail(m.home_team_id)

\* a match that passes the filter and whose `need` is true
NeedsUpdate(m) ==
    /\ m.home_team_id # NULL_ID /\ m.away_team_id # NULL_ID
    /\ \/ m.player1_email # teamToPlayerEmail(m.home_team_id)
       \/ m.player2_email # teamToPlayerEmail(m.away_team_id)

\* positions of the matches in `updates`, in order
UpdateIdx ==
    SelectSeq([k \in 1..Len(matches) |-> k], LAMBDA k : NeedsUpdate(matches[k]))

\* the match list after the first n updates
AfterUpdates(n) ==
    [k \in 1..Len(matches) |->
        IF \E i \in 1..n : UpdateIdx[i] = k
        THEN [matches[k] EXCEPT
                 !.player1_email = teamToPlayerEmail(matches[k].home_team_id),
                 !.player2_email = teamToPlayerEmail(matches[k].away_team_id)]
        ELSE matches[k]]

\* the button "Dodeli igrace mecevima"
assignPlayersToMatches ==
    /\ isAdmin(role)
    /\ UNCHANGED <<role, activeTournamentId, tournamentTeams, doubleRoundRobin>>
    /\ UNCHANGED <<drawVars, fixtureVars, standings, editVars, otherVars>>
    /\ CASE activeTournamentId = NULL_ID ->
            /\ outcome' = [op |-> "assignPlayersToMatches", result |-> "NoActiveTournament"]
            /\ UNCHANGED matches
         [] activeTournamentId # NULL_ID /\ Len(DrawOf(activeTournamentId)) = 0 ->
            /\ outcome' = [op |-> "assignPlayersToMatches", result |-> "NoDraw"]
            /\ UNCHANGED matches
         [] activeTournamentId # NULL_ID /\ Len(DrawOf(activeTournamentId)) # 0
                /\ Len(matches) = 0 ->
            /\ outcome' = [op |-> "assignPlayersToMatches", result |-> "NoMatches"]
            /\ UNCHANGED matches
         [] activeTournamentId # NULL_ID /\ Len(DrawOf(activeTournamentId)) # 0
                /\ Len(matches) # 0 /\ Len(UpdateIdx) = 0 ->
            /\ outcome' = [op |-> "assignPlayersToMatches", result |-> "AlreadyAssigned"]
            /\ UNCHANGED matches
         [] OTHER ->
            \E n \in 0..Len(UpdateIdx) :
                /\ matches' = AfterUpdates(n)
                /\ outcome' = [op |-> "assignPlayersToMatches",
                               result |-> IF n < Len(UpdateIdx) THEN "StoreError"
                                          ELSE "ok"]

\* an assignment of another tournament: team 2 to player 3
OtherTournamentDraw == [tournament_id |-> 2, player_email |-> 3, team_id |-> 2]

\* a match row whose away team is null
HalfMatch == NewMatch([round |-> 2, home_team_id |-> 3, away_team_id |-> NULL_ID])

\* a locked tournament of three teams and two players
InitAssign ==
    /\ role = "admin"
    /\ activeTournamentId = 1
    /\ tournamentTeams = <<1, 2, 3>>
    /\ players = <<"player", "admin", "player">>
    /\ tournament_players \in {<<>>, <<OtherTournamentDraw>>}
    /\ localStorage = {1}
    /\ rosterLocked = TRUE
    /\ matches \in {<<>>, <<NewMatch([round |-> 1, home_team_id |-> 2, away_team_id |-> 3]),
                          HalfMatch>>}
    /\ doubleRoundRobin = FALSE
    /\ fixtures = <<>> /\ drafts = <<>>
    /\ standings = <<>>
    /\ NoEdit
    /\ OtherIdle
    /\ outcome = NoOutcome

NextAssign ==
    \/ assignPlayersToMatches
    \/ drawTeamsForTournament
    \/ resetDraw
    \/ generateSchedule
    \/ resetSchedule

SpecAssign == InitAssign /\ [][NextAssign]_vars

(***************************************************************************)
(* The team pool of a tournament                                           *)
(***************************************************************************)
\* ids of the rows of table `teams`
StoredTeams == {1, 2, 3}

\* the button "Dodaj tim": teamToAddId is the value of the select
addTeamToTournament ==
    /\ isAdmin(role)
    /\ UNCHANGED <<role, activeTournamentId>>
    /\ UNCHANGED <<scheduleVars, drawVars, fixtureVars, standings, editVars, otherVars>>
    /\ \E teamToAddId \in StoredTeams \cup {NULL_ID}, error \in BOOLEAN :
        CASE activeTournamentId = NULL_ID ->
                /\ outcome' = [op |-> "addTeamToTournament", result |-> "NoActiveTournament"]
                /\ UNCHANGED tournamentTeams
          [] activeTournamentId # NULL_ID /\ teamToAddId = NULL_ID ->
                /\ outcome' = [op |-> "addTeamToTournament", result |-> "NoTeamChosen"]
                /\ UNCHANGED tournamentTeams
          [] activeTournamentId # NULL_ID /\ teamToAddId # NULL_ID
                /\ teamToAddId \in Range(tournamentTeams) ->
                /\ outcome' = [op |-> "addTeamToTournament", result |-> "AlreadyAdded"]
                /\ UNCHANGED tournamentTeams
          [] activeTournamentId # NULL_ID /\ teamToAddId # NULL_ID
                /\ teamToAddId \notin Range(tournamentTeams) /\ error ->
                /\ outcome' = [op |-> "addTeamToTournament", result |-> "StoreError"]
                /\ UNCHANGED tournamentTeams
          [] OTHER ->
                /\ tournamentTeams' = Append(tournamentTeams, teamToAddId)
                /\ outcome' = [op |-> "addTeamToTournament", result |-> "ok"]

\* the button "Remove" of a row of the pool
removeTeamFromTournament ==
    /\ isAdmin(role)
    /\ activeTournamentId # NULL_ID
    /\ UNCHANGED <<role, activeTournamentId>>
    /\ UNCHANGED <<scheduleVars, drawVars, fixtureVars, standings, editVars, otherVars>>
    /\ \E row \in 1..Len(tournamentTeams), error \in BOOLEAN :
        IF error
        THEN /\ outcome' = [op |-> "removeTeamFromTournament", result |-> "StoreError"]
             /\ UNCHANGED tournamentTeams
        ELSE /\ tournamentTeams' =
                   SelectSeq(tournamentTeams, LAMBDA t : t # tournamentTeams[row])
             /\ outcome' = [op |-> "removeTeamFromTournament", result |-> "ok"]

\* a locked tournament of two teams and two players, nothing drawn
InitPool ==
    /\ role = "admin"
    /\ activeTournamentId = 1
    /\ tournamentTeams = <<1, 2>>
    /\ players = <<"player", "player">>
    /\ tournament_players = <<>>
    /\ localStorage = {1}
    /\ rosterLocked = TRUE
    /\ matches = <<>> /\ doubleRoundRobin = FALSE
    /\ fixtures = <<>> /\ drafts = <<>>
    /\ standings = <<>>
    /\ NoEdit
    /\ OtherIdle
    /\ outcome = NoOutcome

NextPool ==
    \/ drawTeamsForTournament
    \/ resetDraw
    \/ addTeamToTournament
    \/ removeTeamFromTournament

SpecPool == InitPool /\ [][NextPool]_vars

(***************************************************************************)
(* Quick statistics of a player (useMemo `myStats`)                        *)
(***************************************************************************)
\* tournamentPlayers.find(x => x.player_email === myEmail)?.team_id ?? null
myTeamId(myEmail) ==
    LET rows == SelectSeq(DrawOf(activeTournamentId),
                          LAMBDA tp : tp.player_email = myEmail)
    IN IF myEmail = NULL_ID \/ rows = <<>> THEN NULL_ID ELSE rows[1].team_id

ZeroStats ==
    [played |-> 0, wins |-> 0, draws |-> 0, losses |-> 0, pts |-> 0, gf |-> 0, ga |-> 0]

\* the guards of the loop over matches: which matches are counted
IsMine(teamId, m) ==
    /\ m.home_team_id # NULL_ID /\ m.away_team_id # NULL_ID
    /\ isPlayed(m)
    /\ m.player1_score # NULL_SCORE /\ m.player2_score # NULL_SCORE
    /\ (m.home_team_id = teamId \/ m.away_team_id = teamId)

\* the body of the loop for one counted match
CountMine(st, teamId, m) ==
    LET isHome == m.home_team_id = teamId
        myGoals == IF isHome THEN m.player1_score ELSE m.player2_score
        oppGoals == IF isHome THEN m.player2_score ELSE m.player1_score
        goals == [st EXCEPT !.played = @ + 1, !.gf = @ + myGoals, !.ga = @ + oppGoals]
    IN IF myGoals > oppGoals THEN [goals EXCEPT !.wins = @ + 1, !.pts = @ + 3]
       ELSE IF myGoals < oppGoals THEN [goals EXCEPT !.losses = @ + 1]
       ELSE [goals EXCEPT !.draws = @ + 1, !.pts = @ + 1]

RECURSIVE StatsFrom(_, _, _, _)
\* for (const m of matches) { ... }
StatsFrom(st, teamId, ms, k) ==
    IF k > Len(ms) THEN st
    ELSE StatsFrom(IF IsMine(teamId, ms[k]) THEN CountMine(st, teamId, ms[k]) ELSE st,
                   teamId, ms, k + 1)

\* the value of the memo for a team id and a match list
myStats(teamId, ms) ==
    IF teamId = NULL_ID THEN ZeroStats ELSE StatsFrom(ZeroStats, teamId, ms, 1)

\* three players of tournament 1, each with a drawn team
StatsDraw ==
    <<[tournament_id |-> 1, player_email |-> 1, team_id |-> 1],
      [tournament_id |-> 1, player_email |-> 2, team_id |-> 2],
      [tournament_id |-> 1, player_email |-> 3, team_id |-> 3]>>

\* the single round robin of three teams; any of the matches may be played
StatsMatches ==
    {<<[NewMatch([round |-> 1, home_team_id |-> 1, away_team_id |-> 2])
           EXCEPT !.player1_score = r1[1], !.player2_score = r1[2], !.played_at = r1[3]],
       [NewMatch([round |-> 2, home_team_id |-> 3, away_team_id |-> 1])
           EXCEPT !.player1_score = r2[1], !.player2_score = r2[2], !.played_at = r2[3]],
       [NewMatch([round |-> 3, home_team_id |-> 2, away_team_id |-> 3])
           EXCEPT !.player1_score = r3[1], !.player2_score = r3[2], !.played_at = r3[3]]>> :
        r1 \in MatchResults, r2 \in MatchResults, r3 \in MatchResults}

InitStats ==
    /\ role = "admin"
    /\ activeTournamentId = 1
    /\ tournamentTeams = <<1, 2, 3>>
    /\ players = <<"player", "player", "player">>
    /\ tournament_players = StatsDraw
    /\ localStorage = {1}
    /\ rosterLocked = TRUE
    /\ matches \in StatsMatches
    /\ doubleRoundRobin = FALSE
    /\ fixtures = <<>> /\ drafts = <<>>
    /\ standings = <<>>
    /\ NoEdit
    /\ OtherIdle
    /\ outcome = NoOutcome

NextStats ==
    \/ removeTeamFromTournament
    \/ renderStandings

SpecStats == InitStats /\ [][NextStats]_vars

(***************************************************************************)
(* The invite endpoint (POST /api/admin/invite) and its caller             *)
(***************************************************************************)
\* access tokens: "" is no token, "stale" no longer resolves to a user
Tokens == {"", "stale", "u1", "u2", "u3"}

\* values of the Authorization header: absent, or a scheme and credentials
Authorizations ==
    {[scheme |-> "none", credentials |-> ""], [scheme |-> "Basic", credentials |-> "u1"]}
        \cup {[scheme |-> "Bearer", credentials |-> t] : t \in Tokens}

\* texts of a body field, as sequences of characters
EmailTexts ==
    {<<>>, <<" ">>, <<"a">>, <<"@">>, <<"a", "@", "a">>, <<" ", "A", "@", "a", " ">>}
TournamentTexts == {<<>>, <<" ">>, <<"1">>, <<" ", "2", " ">>}

\* JSON bodies: an object with any of the two fields, or text that is not JSON
Bodies ==
    {[parses |-> FALSE, fields |-> <<>>]}
        \cup {[parses |-> TRUE, fields |-> <<>>]}
        \cup {[parses |-> TRUE, fields |-> [f \in {"email"} |-> e]] : e \in EmailTexts}
        \cup {[parses |-> TRUE, fields |-> [f \in {"tournamentId"} |-> t]] : t \in TournamentTexts}
        \cup {[parses |-> TRUE,
               fields |-> [f \in {"email", "tournamentId"} |->
                              IF f = "email" THEN e ELSE t]] :
                e \in EmailTexts, t \in TournamentTexts}

Requests == [authorization : Authorizations, body : Bodies]

\* must(name) for the three keys: throws when one is not set
mustThrows == ~env

\* authHeader.startsWith("Bearer ") ? authHeader.slice(7) : null
tokenAnyScheme(authHeader) == authHeader.credentials
token(authHeader) ==
    IF authHeader.scheme = "Bearer" THEN authHeader.credentials ELSE "null"

\* `!token`: null and the empty string are falsy
NoToken(t) == t = "null" \/ t = ""

\* supabaseAnon.auth.getUser(token): the user of the token, NULL_ID with an error
getUser(t) ==
    CASE t = "u1" -> 1
      [] t = "u2" -> 2
      [] t = "u3" -> 3
      [] OTHER -> NULL_ID

\* table `profiles`: user 1 is an admin, user 2 a player, user 3 has a row
\* without a role
ProfileRole(user) ==
    CASE user = 1 -> "admin"
      [] user = 2 -> "player"
      [] OTHER -> "null"

RECURSIVE TrimStart(_)
TrimStart(s) == IF s # <<>> /\ s[1] = " " THEN TrimStart(Tail(s)) ELSE s

RECURSIVE TrimEnd(_)
TrimEnd(s) ==
    IF s # <<>> /\ s[Len(s)] = " " THEN TrimEnd(SubSeq(s, 1, Len(s) - 1)) ELSE s

\* String.prototype.trim
Trim(s) == TrimEnd(TrimStart(s))

\* String.prototype.toLowerCase
ToLowerCase(s) == [k \in 1..Len(s) |-> IF s[k] = "A" THEN "a" ELSE s[k]]

\* body.email || "" and body.tournamentId || ""
Field(body, f) == IF f \in DOMAIN body.fields THEN body.fields[f] ELSE <<>>

\* const email = (body.email || "").trim().toLowerCase()
EmailOf(body) == ToLowerCase(Trim(Field(body, "email")))

\* const tournamentId = (body.tournamentId || "").trim()
TournamentIdOf(body) == Trim(Field(body, "tournamentId"))

\* `!email || !email.includes("@")`
InvalidEmail(email) == email = <<>> \/ "@" \notin Range(email)

\* the response is returned and the handler ends
Respond(status, error) ==
    /\ response' = [status |-> status, error |-> error]
    /\ pc' = "done"

\* a request arrives at the endpoint, from any client
POST ==
    /\ pc \in {"idle", "done"}
    /\ \E r \in Requests : req' = r
    /\ pc' = "env"
    /\ response' = NoResponse
    /\ outcome' = [op |-> "POST", result |-> "received"]
    /\ UNCHANGED <<role, activeTournamentId, tournamentTeams, standings>>
    /\ UNCHANGED <<scheduleVars, drawVars, fixtureVars, editVars>>
    /\ UNCHANGED <<drawing, tournaments, env, calls>>

\* the three must(...) lines; a throw is answered by the catch block
readEnv ==
    /\ pc = "env"
    /\ IF mustThrows THEN Respond(500, "Missing env") ELSE pc' = "token" /\ UNCHANGED response
    /\ outcome' = [op |-> "POST", result |-> "env"]
    /\ UNCHANGED <<role, activeTournamentId, tournamentTeams, standings>>
    /\ UNCHANGED <<scheduleVars, drawVars, fixtureVars, editVars>>
    /\ UNCHANGED <<drawing, tournaments, env, req, calls>>

\* 1) the token of the header
checkToken ==
    /\ pc = "token"
    /\ IF NoToken(token(req.authorization))
       THEN Respond(401, "Unauthorized (missing Bearer token)")
       ELSE pc' = "user" /\ UNCHANGED response
    /\ outcome' = [op |-> "POST", result |-> "token"]
    /\ UNCHANGED <<role, activeTournamentId, tournamentTeams, standings>>
    /\ UNCHANGED <<scheduleVars, drawVars, fixtureVars, editVars>>
    /\ UNCHANGED <<drawing, tournaments, env, req, calls>>

\* 2) who is calling
checkUser ==
    /\ pc = "user"
    /\ IF getUser(token(req.authorization)) = NULL_ID
       THEN Respond(401, "Unauthorized (invalid token)")
       ELSE pc' = "role" /\ UNCHANGED response
    /\ outcome' = [op |-> "POST", result |-> "user"]
    /\ UNCHANGED <<role, activeTournamentId, tournamentTeams, standings>>
    /\ UNCHANGED <<scheduleVars, drawVars, fixtureVars, editVars>>
    /\ UNCHANGED <<drawing, tournaments, env, req, calls>>

\* 3) the role of the caller's profile; the read may fail
checkRole ==
    /\ pc = "role"
    /\ \E profErr \in BOOLEAN :
        IF profErr THEN Respond(500, "Role check failed")
        ELSE IF ProfileRole(getUser(token(req.authorization))) # "admin"
        THEN Respond(403, "Forbidden (not admin)")
        ELSE pc' = "body" /\ UNCHANGED response
    /\ outcome' = [op |-> "POST", result |-> "role"]
    /\ UNCHANGED <<role, activeTournamentId, tournamentTeams, standings>>
    /\ UNCHANGED <<scheduleVars, drawVars, fixtureVars, editVars>>
    /\ UNCHANGED <<drawing, tournaments, env, req, calls>>

\* 4) the body: req.json() throws on text that is not JSON
readBody ==
    /\ pc = "body"
    /\ IF ~req.body.parses THEN Respond(500, "Server error")
       ELSE IF InvalidEmail(EmailOf(req.body)) THEN Respond(400, "Invalid email")
       ELSE IF TournamentIdOf(req.body) = <<>> THEN Respond(400, "Missing tournamentId")
       ELSE pc' = "invite" /\ UNCHANGED response
    /\ outcome' = [op |-> "POST", result |-> "body"]
    /\ UNCHANGED <<role, activeTournamentId, tournamentTeams, standings>>
    /\ UNCHANGED <<scheduleVars, drawVars, fixtureVars, editVars>>
    /\ UNCHANGED <<drawing, tournaments, env, req, calls>>

\* 5), 6) supabaseAdmin.auth.admin.inviteUserByEmail(email, { redirectTo })
inviteUserByEmail ==
    /\ pc = "invite"
    /\ calls' = calls \cup {[email |-> EmailOf(req.body),
                             redirectTo |-> TournamentIdOf(req.body)]}
    /\ \E inviteErr \in BOOLEAN :
        IF inviteErr THEN Respond(500, "Failed to invite") ELSE Respond(200, "none")
    /\ outcome' = [op |-> "POST", result |-> "invite"]
    /\ UNCHANGED <<role, activeTournamentId, tournamentTeams, standings>>
    /\ UNCHANGED <<scheduleVars, drawVars, fixtureVars, editVars>>
    /\ UNCHANGED <<drawing, tournaments, env, req>>

\* the text of a tournament id
TournamentText(tid) == IF tid = 1 THEN <<"1">> ELSE <<"2">>

\* emails of rows of `players`: addPlayer stores any non-empty text
PlayerEmails == {<<"a">>, <<"a", "@", "a">>}

\* the button "Invite" of a player row; sess.session?.access_token is the
\* token of the browser's session
invitePlayer ==
    /\ isAdmin(role)
    /\ pc \in {"idle", "done"}
    /\ UNCHANGED <<role, activeTournamentId, tournamentTeams, standings>>
    /\ UNCHANGED <<scheduleVars, drawVars, fixtureVars, editVars>>
    /\ UNCHANGED <<drawing, tournaments, env, calls>>
    /\ \E email \in PlayerEmails, access_token \in Tokens :
        IF activeTournamentId = NULL_ID
        THEN /\ outcome' = [op |-> "invitePlayer", result |-> "NoActiveTournament"]
             /\ UNCHANGED <<req, pc, response>>
        ELSE IF access_token = ""
        THEN /\ outcome' = [op |-> "invitePlayer", result |-> "NoSession"]
             /\ UNCHANGED <<req, pc, response>>
        ELSE /\ req' = [authorization |-> [scheme |-> "Bearer", credentials |-> access_token],
                        body |-> [parses |-> TRUE,
                                  fields |-> [f \in {"email", "tournamentId"} |->
                                                IF f = "email" THEN email
                                                ELSE TournamentText(activeTournamentId)]]]
             /\ pc' = "env"
             /\ response' = NoResponse
             /\ outcome' = [op |-> "invitePlayer", result |-> "sent"]

InitInvite ==
    /\ role = "admin"
    /\ activeTournamentId \in {NULL_ID, 1}
    /\ tournamentTeams = <<1, 2>>
    /\ players = <<"player", "player">>
    /\ tournament_players = <<>>
    /\ localStorage = {} /\ rosterLocked = FALSE
    /\ matches = <<>> /\ doubleRoundRobin = FALSE
    /\ fixtures = <<>> /\ drafts = <<>>
    /\ standings = <<>>
    /\ NoEdit
    /\ drawing = [p \in Pages |-> FALSE]
    /\ tournaments = StoredTournaments
    /\ env \in BOOLEAN
    /\ req = NoRequest /\ pc = "idle" /\ response = NoResponse /\ calls = {}
    /\ outcome = NoOutcome

NextInvite ==
    \/ POST
    \/ invitePlayer
    \/ readEnv
    \/ checkToken
    \/ checkUser
    \/ checkRole
    \/ readBody
    \/ inviteUserByEmail

SpecInvite == InitInvite /\ [][NextInvite]_vars

(***************************************************************************)
(* The remaining admin handlers and the role check of every handler        *)
(***************************************************************************)
\* the address of the k-th row of `players`
PlayerEmail(k) == <<"a", "@">> \o [i \in 1..k |-> "a"]

\* a fetch of /api/admin/invite by the dashboard
InviteRequest(email, access_token) ==
    [authorization |-> [scheme |-> "Bearer", credentials |-> access_token],
     body |-> [parses |-> TRUE,
               fields |-> [f \in {"email", "tournamentId"} |->
                              IF f = "email" THEN email
                              ELSE TournamentText(activeTournamentId)]]]

\* the button "Dodaj igraca": upsert on the email, then the automatic invite
addPlayer ==
    /\ isAdmin(role)
    /\ UNCHANGED <<role, activeTournamentId, tournamentTeams, standings>>
    /\ UNCHANGED <<tournament_players, localStorage, rosterLocked>>
    /\ UNCHANGED <<scheduleVars, fixtureVars, editVars>>
    /\ UNCHANGED <<drawing, tournaments, env, calls>>
    /\ \E blank, error, sendInviteOnAdd \in BOOLEAN, row \in 1..(Len(players) + 1),
          access_token \in Tokens :
        IF blank
        THEN /\ outcome' = [op |-> "addPlayer", result |-> "MissingInput"]
             /\ UNCHANGED <<players, req, pc, response>>
        ELSE IF error
        THEN /\ outcome' = [op |-> "addPlayer", result |-> "StoreError"]
             /\ UNCHANGED <<players, req, pc, response>>
        ELSE /\ row <= MaxPlayers
             /\ players' = IF row <= Len(players)
                           THEN [players EXCEPT ![row] = "player"]
                           ELSE Append(players, "player")
             /\ IF sendInviteOnAdd /\ activeTournamentId # NULL_ID /\ access_token # ""
                    /\ pc \in {"idle", "done"}
                THEN /\ req' = InviteRequest(PlayerEmail(row), access_token)
                     /\ pc' = "env"
                     /\ response' = NoResponse
                     /\ outcome' = [op |-> "addPlayer", result |-> "invited"]
                ELSE /\ UNCHANGED <<req, pc, response>>
                     /\ outcome' = [op |-> "addPlayer", result |-> "ok"]

\* the endpoint as one call: whether the request reaches inviteUserByEmail
PassesChecks(r, profErr) ==
    /\ ~mustThrows
    /\ ~NoToken(token(r.authorization))
    /\ getUser(token(r.authorization)) # NULL_ID
    /\ ~profErr
    /\ ProfileRole(getUser(token(r.authorization))) = "admin"
    /\ r.body.parses
    /\ ~InvalidEmail(EmailOf(r.body))
    /\ TournamentIdOf(r.body) # <<>>

\* ... and what it answers
Answer(r, profErr, inviteErr) ==
    IF mustThrows THEN [status |-> 500, error |-> "Missing env"]
    ELSE IF NoToken(token(r.authorization))
    THEN [status |-> 401, error |-> "Unauthorized (missing Bearer token)"]
    ELSE IF getUser(token(r.authorization)) = NULL_ID
    THEN [status |-> 401, error |-> "Unauthorized (invalid token)"]
    ELSE IF profErr THEN [status |-> 500, error |-> "Role check failed"]
    ELSE IF ProfileRole(getUser(token(r.authorization))) # "admin"
    THEN [status |-> 403, error |-> "Forbidden (not admin)"]
    ELSE IF ~r.body.parses THEN [status |-> 500, error |-> "Server error"]
    ELSE IF InvalidEmail(EmailOf(r.body)) THEN [status |-> 400, error |-> "Invalid email"]
    ELSE IF TournamentIdOf(r.body) = <<>>
    THEN [status |-> 400, error |-> "Missing tournamentId"]
    ELSE IF inviteErr THEN [status |-> 500, error |-> "Failed to invite"]
    ELSE [status |-> 200, error |-> "none"]

\* the button "Invite all": one fetch per player row, in order and each
\* awaited, until one is not answered ok; `last` is the row of the last fetch
inviteAllPlayers ==
    /\ isAdmin(role)
    /\ pc \in {"idle", "done"}
    /\ UNCHANGED <<role, activeTournamentId, tournamentTeams, standings>>
    /\ UNCHANGED <<scheduleVars, drawVars, fixtureVars, editVars>>
    /\ UNCHANGED <<drawing, tournaments, env>>
    /\ IF activeTournamentId = NULL_ID
       THEN /\ outcome' = [op |-> "inviteAllPlayers", result |-> "NoActiveTournament"]
            /\ UNCHANGED <<req, pc, response, calls>>
       ELSE /\ Len(onlyPlayers) > 0
            /\ \E ok \in BOOLEAN, access_token \in Tokens, last \in 1..Len(onlyPlayers),
                  profErr \in BOOLEAN, inviteErr \in BOOLEAN :
                LET fetch(k) == InviteRequest(PlayerEmail(onlyPlayers[k]), access_token)
                    answer == Answer(fetch(last), profErr, inviteErr)
                    reached == {k \in 1..last : PassesChecks(fetch(k), k = last /\ profErr)}
                IN IF ~ok THEN UNCHANGED <<req, pc, response, calls, outcome>>
                   ELSE IF access_token = ""
                   THEN /\ outcome' = [op |-> "inviteAllPlayers", result |-> "NoSession"]
                        /\ UNCHANGED <<req, pc, response, calls>>
                   ELSE /\ \A k \in 1..(last - 1) : Answer(fetch(k), FALSE, FALSE).status = 200
                        /\ last = Len(onlyPlayers) \/ answer.status # 200
                        /\ req' = fetch(last)
                        /\ pc' = "done"
                        /\ response' = answer
                        /\ calls' = calls \cup
                               {[email |-> EmailOf(fetch(k).body),
                                 redirectTo |-> TournamentIdOf(fetch(k).body)] : k \in reached}
                        /\ outcome' = [op |-> "inviteAllPlayers",
                                       result |-> IF answer.status = 200 THEN "ok" ELSE "failed"]

\* the button "Kreiraj turnir"; the store gives the row a fresh id, which
\* becomes the active tournament: nothing is stored for it yet
createTournament ==
    /\ isAdmin(role)
    /\ UNCHANGED <<role, players, tournament_players, localStorage, doubleRoundRobin>>
    /\ UNCHANGED <<fixtureVars, standings, editVars>>
    /\ UNCHANGED <<drawing, inviteVars>>
    /\ \E name \in {0, 1, 2}, error \in BOOLEAN :
        IF name = 0
        THEN /\ outcome' = [op |-> "createTournament", result |-> "MissingName"]
             /\ UNCHANGED <<tournaments, activeTournamentId, tournamentTeams, matches, rosterLocked>>
        ELSE IF error
        THEN /\ outcome' = [op |-> "createTournament", result |-> "StoreError"]
             /\ UNCHANGED <<tournaments, activeTournamentId, tournamentTeams, matches, rosterLocked>>
        ELSE /\ 2 \notin DOMAIN tournaments
             /\ tournaments' = [t \in DOMAIN tournaments \cup {2} |->
                                   IF t = 2 THEN name ELSE tournaments[t]]
             /\ activeTournamentId' = 2
             /\ rosterLocked' = (2 \in localStorage)
             /\ tournamentTeams' = <<>>
             /\ matches' = <<>>
             /\ outcome' = [op |-> "createTournament", result |-> "ok"]

\* the button "Sacuvaj" of a tournament being renamed
saveTournamentRename ==
    /\ isAdmin(role)
    /\ UNCHANGED <<role, activeTournamentId, tournamentTeams, standings>>
    /\ UNCHANGED <<scheduleVars, drawVars, fixtureVars, editVars>>
    /\ UNCHANGED <<drawing, inviteVars>>
    /\ \E tournamentId \in DOMAIN tournaments, newName \in {0, 1, 2}, error \in BOOLEAN :
        /\ tournaments[tournamentId] # 0
        /\ IF newName = 0
           THEN /\ outcome' = [op |-> "saveTournamentRename", result |-> "MissingName"]
                /\ UNCHANGED tournaments
           ELSE IF error
           THEN /\ outcome' = [op |-> "saveTournamentRename", result |-> "StoreError"]
                /\ UNCHANGED tournaments
           ELSE /\ tournaments' = [tournaments EXCEPT ![tournamentId] = newName]
                /\ outcome' = [op |-> "saveTournamentRename", result |-> "ok"]

\* the button "Obrisi" of a tournament; a deleted row keeps its id, name 0
deleteTournament ==
    /\ isAdmin(role)
    /\ UNCHANGED <<role, players, tournament_players, localStorage, doubleRoundRobin>>
    /\ UNCHANGED <<drafts, standings, editVars>>
    /\ UNCHANGED <<drawing, inviteVars>>
    /\ \E tournamentId \in DOMAIN tournaments, ok \in BOOLEAN, error \in BOOLEAN :
        /\ tournaments[tournamentId] # 0
        /\ IF ~ok
           THEN UNCHANGED <<tournaments, activeTournamentId, tournamentTeams, matches,
                            fixtures, rosterLocked, outcome>>
           ELSE IF error
           THEN /\ outcome' = [op |-> "deleteTournament", result |-> "StoreError"]
                /\ UNCHANGED <<tournaments, activeTournamentId, tournamentTeams, matches,
                               fixtures, rosterLocked>>
           ELSE /\ tournaments' = [tournaments EXCEPT ![tournamentId] = 0]
                /\ outcome' = [op |-> "deleteTournament", result |-> "ok"]
                /\ IF activeTournamentId = tournamentId
                   THEN /\ activeTournamentId' = NULL_ID
                        /\ matches' = <<>>
                        /\ tournamentTeams' = <<>>
                        /\ fixtures' = SelectSeq(fixtures,
                                            LAMBDA f : f.tournament_id # tournamentId)
                        /\ rosterLocked' = FALSE
                   ELSE UNCHANGED <<activeTournamentId, tournamentTeams, matches,
                                    fixtures, rosterLocked>>

\* the handlers of the dashboard that write
MutatingOps ==
    {"lockRoster", "unlockRoster", "draw", "resetDraw", "handleSaveScheduleRound1",
     "resetFixtures", "generateMatchesFromFixtures", "generateSchedule", "resetSchedule",
     "assignPlayersToMatches", "saveMatchResult", "clearMatchResult", "addPlayer",
     "createTournament", "saveTournamentRename", "deleteTournament",
     "addTeamToTournament", "removeTeamFromTournament", "invitePlayer", "inviteAllPlayers"}

\* `if (!isAdmin(role)) return;`, the first statement of each of them
returnsAtRoleCheck ==
    /\ ~isAdmin(role)
    /\ \E op \in MutatingOps : outcome' = [op |-> op, result |-> "NotAdmin"]
    /\ UNCHANGED <<role, activeTournamentId, tournamentTeams, standings>>
    /\ UNCHANGED <<scheduleVars, drawVars, fixtureVars, editVars, otherVars>>

\* tournament 1 before anything was stored for it: two teams, two players,
\* a round 1 entered in the selects
InitRolesFresh ==
    /\ tournament_players = <<>>
    /\ localStorage = {} /\ rosterLocked = FALSE
    /\ matches = <<>>
    /\ fixtures = <<OtherTournamentFixture>>
    /\ drafts = <<[match_number |-> 1, home_team_id |-> 1, away_team_id |-> 2]>>
    /\ NoEdit

\* tournament 1 under way: roster locked, teams drawn, round 1 stored, one
\* match played, and an admin editing the other one
InitRolesUnderWay ==
    /\ tournament_players = EarlierDraw
    /\ localStorage = {1} /\ rosterLocked = TRUE
    /\ matches =
          <<[NewMatch([round |-> 1, home_team_id |-> 1, away_team_id |-> 2])
                EXCEPT !.player1_score = 2, !.player2_score = 1, !.played_at = 1],
            NewMatch([round |-> 2, home_team_id |-> 2, away_team_id |-> 1])>>
    /\ fixtures =
          <<[tournament_id |-> 1, round_number |-> 1, match_number |-> 1,
             home_team_id |-> 1, away_team_id |-> 2, is_bye |-> FALSE, source |-> "manual"]>>
    /\ drafts = <<>>
    /\ IF isAdmin(role)
       THEN /\ editingMatchId = 2
            /\ editHomeGoals = 1 /\ editAwayGoals = 0
            /\ typed = <<[kind |-> "num", tenths |-> 10], [kind |-> "num", tenths |-> 0]>>
       ELSE NoEdit

InitRoles ==
    /\ role \in Roles
    /\ activeTournamentId = 1
    /\ tournamentTeams = <<1, 2>>
    /\ players = <<"player", "player">>
    /\ doubleRoundRobin = FALSE
    /\ standings = <<>>
    /\ drawing = [p \in Pages |-> FALSE]
    /\ tournaments = [t \in {1} |-> 1]
    /\ env = TRUE
    /\ req = NoRequest /\ pc = "idle" /\ response = NoResponse /\ calls = {}
    /\ outcome = NoOutcome
    /\ \/ InitRolesFresh
       \/ InitRolesUnderWay

\* no handler has returned yet: each handler is called in each initial state
FirstCall == outcome = NoOutcome

NextRoles ==
    \/ returnsAtRoleCheck
    \/ FirstCall /\ lockRoster
    \/ FirstCall /\ unlockRoster
    \/ FirstCall /\ drawTeamsForTournament
    \/ FirstCall /\ resetDraw
    \/ FirstCall /\ handleSaveScheduleRound1
    \/ FirstCall /\ resetFixtures
    \/ FirstCall /\ generateMatchesFromFixtures
    \/ FirstCall /\ generateSchedule
    \/ FirstCall /\ resetSchedule
    \/ FirstCall /\ assignPlayersToMatches
    \/ FirstCall /\ saveMatchResult
    \/ FirstCall /\ clearMatchResult
    \/ FirstCall /\ addPlayer
    \/ FirstCall /\ createTournament
    \/ FirstCall /\ saveTournamentRename
    \/ FirstCall /\ deleteTournament
    \/ FirstCall /\ addTeamToTournament
    \/ FirstCall /\ removeTeamFromTournament
    \/ FirstCall /\ invitePlayer
    \/ FirstCall /\ inviteAllPlayers

SpecRoles == InitRoles /\ [][NextRoles]_vars

(***************************************************************************)
(* Properties                                                               *)
(***************************************************************************)

\* C1: a single-leg schedule generated from N >= 2 distinct teams uses exactly
\* the round numbers 1..N-1 (N even) or 1..N (N odd), and every unordered pair
\* of teams meets in exactly one generated match.
C1_RoundRobinComplete ==
    outcome = [op |-> "generateSchedule", result |-> "Generated"] =>
        LET N == Len(tournamentTeams)
            lastRound == IF N % 2 = 0 THEN N - 1 ELSE N
        IN /\ N >= 2
           /\ {matches[k].round : k \in 1..Len(matches)} = 1..lastRound
           /\ \A a, b \in Range(tournamentTeams) :
                a < b =>
                    Cardinality({k \in 1..Len(matches) :
                        {matches[k].home_team_id, matches[k].away_team_id} = {a, b}}) = 1

\* a single-leg schedule of an odd number (>= 3) of teams has been generated
C1_Witness ==
    /\ outcome = [op |-> "generateSchedule", result |-> "Generated"]
    /\ Len(tournamentTeams) >= 3
    /\ Len(tournamentTeams) % 2 = 1
    /\ Len(matches) > 0

\* C2: a successful draw stores exactly one assignment per player with
\* role=player, no team twice, and only teams of the tournament's pool.
C2_DrawBijective ==
    outcome = [op |-> "draw", result |-> "ok"] =>
        LET P == Cardinality({e \in 1..Len(players) : players[e] = "player"})
            rows == tournament_players
        IN /\ P >= 2 /\ Len(tournamentTeams) >= P
           /\ Len(rows) = P
           /\ \A e \in 1..Len(players) :
                players[e] = "player" =>
                    Cardinality({k \in 1..Len(rows) : rows[k].player_email = e}) = 1
           /\ \A k1, k2 \in 1..Len(rows) :
                k1 # k2 => rows[k1].team_id # rows[k2].team_id
           /\ \A k \in 1..Len(rows) : rows[k].team_id \in Range(tournamentTeams)

\* a draw succeeded with more teams in the pool than players, and an admin in
\* the players table
C2_Witness ==
    /\ outcome = [op |-> "draw", result |-> "ok"]
    /\ Len(tournamentTeams) > Len(tournament_players)
    /\ \E e \in 1..Len(players) : players[e] = "admin"

\* C3: a draw reaches its delete and insert only while the tournament's gate
\* (the stored lock) is Locked; a draw by the admin on a tournament whose gate
\* is Unlocked ends with the roster-not-locked error and changes no assignment.
C3_DrawOnlyWhileLocked ==
    [][outcome'.op = "draw" =>
        /\ (\/ tournament_players' # tournament_players
            \/ outcome'.result \in {"ok", "InsertError", "DeleteError"})
               => activeTournamentId \in localStorage
        /\ (activeTournamentId # NULL_ID /\ activeTournamentId \notin localStorage)
               => /\ outcome'.result = "RosterNotLocked"
                  /\ tournament_players' = tournament_players]_vars

\* after lock, draw and unlock, a second draw was refused: the first draw's
\* assignments are still stored
C3_Witness ==
    /\ outcome = [op |-> "draw", result |-> "RosterNotLocked"]
    /\ activeTournamentId \notin localStorage
    /\ tournament_players # <<>>

\* ---- reference tally, stated per team over the matches ----
RECURSIVE SumSeq(_)
SumSeq(q) == IF q = <<>> THEN 0 ELSE Head(q) + SumSeq(Tail(q))

\* a match the table counts: both teams named and in the pool, played-at set,
\* both scores set
Counted(m) ==
    /\ m.home_team_id # NULL_ID /\ m.away_team_id # NULL_ID
    /\ m.home_team_id \in Range(tournamentTeams)
    /\ m.away_team_id \in Range(tournamentTeams)
    /\ m.played_at # NULL_TS
    /\ m.player1_score # NULL_SCORE /\ m.player2_score # NULL_SCORE

CountedIndexes == {k \in 1..Len(matches) : Counted(matches[k])}

\* goals scored (own = TRUE) or conceded (own = FALSE) by team t in match m
GoalsOf(t, m, own) ==
    (IF m.home_team_id = t THEN (IF own THEN m.player1_score ELSE m.player2_score) ELSE 0)
    + (IF m.away_team_id = t THEN (IF own THEN m.player2_score ELSE m.player1_score) ELSE 0)

ReferenceRow(t) ==
    LET mine == {k \in CountedIndexes :
                    t \in {matches[k].home_team_id, matches[k].away_team_id}}
        won == {k \in mine : GoalsOf(t, matches[k], TRUE) > GoalsOf(t, matches[k], FALSE)}
        drawn == {k \in mine : GoalsOf(t, matches[k], TRUE) = GoalsOf(t, matches[k], FALSE)}
        lost == {k \in mine : GoalsOf(t, matches[k], TRUE) < GoalsOf(t, matches[k], FALSE)}
        gf == SumSeq([k \in 1..Len(matches) |->
                        IF k \in mine THEN GoalsOf(t, matches[k], TRUE) ELSE 0])
        ga == SumSeq([k \in 1..Len(matches) |->
                        IF k \in mine THEN GoalsOf(t, matches[k], FALSE) ELSE 0])
    IN [team_id |-> t, played |-> Cardinality(mine),
        wins |-> Cardinality(won), draws |-> Cardinality(drawn),
        losses |-> Cardinality(lost),
        gf |-> gf, ga |-> ga, gd |-> gf - ga,
        pts |-> 3 * Cardinality(won) + Cardinality(drawn)]

Rendered == outcome = [op |-> "renderStandings", result |-> "ok"]

\* C4: the standings hold exactly one row per team of the pool, and each row
\* is the reference tally of that team over the counted matches (all zeros
\* for a team without a counted match).
C4_RowsAreReferenceTally ==
    Rendered =>
        /\ Len(standings) = Len(tournamentTeams)
        /\ \A k \in 1..Len(standings) : standings[k].team_id \in Range(tournamentTeams)
        /\ \A t \in Range(tournamentTeams) :
            /\ Cardinality({k \in 1..Len(standings) : standings[k].team_id = t}) = 1
            /\ \A k \in 1..Len(standings) :
                standings[k].team_id = t => standings[k] = ReferenceRow(t)

\* a table with an all-zero row beside the row of a team with two counted
\* matches
C4_Witness ==
    /\ Rendered
    /\ \E k \in 1..Len(standings) : standings[k] = ZeroRow(standings[k].team_id)
    /\ \E k \in 1..Len(standings) : standings[k].played = 2 /\ standings[k].gf > 0

\* the match list without its i-th match
WithoutMatch(i) ==
    SubSeq(matches, 1, i - 1) \o SubSeq(matches, i + 1, Len(matches))

\* the i-th match contributes: the table differs from the one without it
Contributes(i) == standings # computeStandings(tournamentTeams, WithoutMatch(i))

PoolIndex(t) == CHOOSE k \in 1..Len(tournamentTeams) : tournamentTeams[k] = t

SameKeys(a, b) == a.pts = b.pts /\ a.gd = b.gd /\ a.gf = b.gf

\* a is strictly above b in (points, goal difference, goals for)
Above(a, b) ==
    \/ a.pts > b.pts
    \/ a.pts = b.pts /\ a.gd > b.gd
    \/ a.pts = b.pts /\ a.gd = b.gd /\ a.gf > b.gf

\* C6: the standings are the pool's rows in descending lexicographic order of
\* (points, goal difference, goals for), rows equal on all three keys in the
\* order of the team pool.
C6_SortedAndStable ==
    Rendered =>
        /\ {standings[k].team_id : k \in 1..Len(standings)} = Range(tournamentTeams)
        /\ \A k, l \in 1..Len(standings) :
            k < l =>
                /\ ~Above(standings[l], standings[k])
                /\ SameKeys(standings[k], standings[l]) =>
                       PoolIndex(standings[k].team_id) < PoolIndex(standings[l].team_id)

\* two teams that played, equal on all three keys, listed in pool order which
\* is not id order, above a third row
C6_Witness ==
    /\ Rendered
    /\ Len(standings) = 3
    /\ \E k \in 1..2 :
        /\ SameKeys(standings[k], standings[k + 1])
        /\ standings[k].played > 0
        /\ standings[k].team_id > standings[k + 1].team_id

SumOf(rows, field) ==
    SumSeq([k \in 1..Len(rows) |->
               IF field = "played" THEN rows[k].played ELSE rows[k].pts])

\* C7: the played columns add up to twice the number of counted matches, and
\* each counted match adds 3 points to the table when decisive, 2 when drawn.
C7_Conservation ==
    Rendered =>
        /\ SumOf(standings, "played") = 2 * Cardinality(CountedIndexes)
        /\ \A i \in CountedIndexes :
            SumOf(standings, "pts")
                - SumOf(computeStandings(tournamentTeams, WithoutMatch(i)), "pts")
              = IF matches[i].player1_score = matches[i].player2_score THEN 2 ELSE 3
        /\ SumOf(standings, "pts")
              = 3 * Cardinality({i \in CountedIndexes :
                        matches[i].player1_score # matches[i].player2_score})
                + 2 * Cardinality({i \in CountedIndexes :
                        matches[i].player1_score = matches[i].player2_score})

\* a table of one decisive and one drawn counted match
C7_Witness ==
    /\ Rendered
    /\ \E i, j \in CountedIndexes :
        /\ matches[i].player1_score = matches[i].player2_score
        /\ matches[j].player1_score # matches[j].player2_score
    /\ SumOf(standings, "pts") = 5

\* ---- round-1 submission ----
SaveResult(r) == outcome = [op |-> "saveRound1", result |-> r]

\* the stored fixtures of the active tournament in one round
RoundOf(n) ==
    SelectSeq(FixturesOf(activeTournamentId), LAMBDA f : f.round_number = n)

\* C8: after a successful round-1 submission every round-1 fixture is tagged
\* manual and has exactly one round-2 fixture with its match number, which
\* has home and away swapped and is tagged auto-generated; round 2 holds no
\* other fixture, and match numbers are unique within each round.
C8_Round2Mirrors ==
    SaveResult("ok") =>
        LET r1 == RoundOf(1)
            r2 == RoundOf(2)
        IN /\ Len(r1) + Len(r2) = Len(FixturesOf(activeTournamentId))
           /\ \A k \in 1..Len(r1) :
               /\ r1[k].source = "manual"
               /\ Cardinality({l \in 1..Len(r2) :
                      r2[l].match_number = r1[k].match_number}) = 1
               /\ \A l \in 1..Len(r2) :
                   r2[l].match_number = r1[k].match_number =>
                       /\ r2[l].home_team_id = r1[k].away_team_id
                       /\ r2[l].away_team_id = r1[k].home_team_id
                       /\ r2[l].source = "auto_reverse"
           /\ \A l \in 1..Len(r2) :
               \E k \in 1..Len(r1) : r1[k].match_number = r2[l].match_number
           /\ \A k, l \in 1..Len(r1) :
               r1[k].match_number = r1[l].match_number => k = l
           /\ \A k, l \in 1..Len(r2) :
               r2[k].match_number = r2[l].match_number => k = l

\* two pairings saved beside the fixtures of another tournament
C8_Witness ==
    /\ SaveResult("ok")
    /\ Len(RoundOf(1)) = 2 /\ Len(RoundOf(2)) = 2
    /\ Len(fixtures) = 5

\* the drafts that reach saveRound1AndGenerateRound2
Submitted == HandlerCleaned(drafts)

SelfPaired(ds) == \E k \in 1..Len(ds) : ds[k].home_team_id = ds[k].away_team_id

\* some team id fills two of the home and away slots
RepeatedTeam(ds) ==
    \E k, l \in 1..Len(ds) :
        \/ k # l /\ ds[k].home_team_id = ds[l].home_team_id
        \/ k # l /\ ds[k].away_team_id = ds[l].away_team_id
        \/ ds[k].home_team_id = ds[l].away_team_id

Accepted == outcome.op = "saveRound1" /\ outcome.result \in {"ok", "DeleteError", "InsertError"}

\* C9: the drafts handed to saveRound1AndGenerateRound2 are accepted only if
\* none pairs a team against itself and no team id fills two slots; a
\* self-pairing draft is rejected with the self-pairing error and a repeated
\* team id with the duplicate-team-usage error, and a stored round 1 names
\* every team once.
C9_AcceptedIsMatching ==
    /\ Accepted => ~SelfPaired(Submitted) /\ ~RepeatedTeam(Submitted)
    /\ (outcome.op = "saveRound1" /\ SelfPaired(Submitted)) => SaveResult("SelfPairing")
    /\ (outcome.op = "saveRound1" /\ ~SelfPaired(Submitted) /\ RepeatedTeam(Submitted))
           => SaveResult("DuplicateTeamUsage")
    /\ SaveResult("ok") =>
           \A k, l \in 1..Len(RoundOf(1)) :
               /\ RoundOf(1)[k].home_team_id # RoundOf(1)[l].away_team_id
               /\ k # l => RoundOf(1)[k].home_team_id # RoundOf(1)[l].home_team_id
               /\ k # l => RoundOf(1)[k].away_team_id # RoundOf(1)[l].away_team_id

\* two complete drafts that share a team were rejected, nothing stored
C9_Witness ==
    /\ SaveResult("DuplicateTeamUsage")
    /\ Len(Submitted) = 2
    /\ ~SelfPaired(Submitted)
    /\ FixturesOf(activeTournamentId) = <<>>

IncompleteDraft ==
    \E k \in 1..Len(drafts) :
        drafts[k].home_team_id = NULL_ID \/ drafts[k].away_team_id = NULL_ID

\* C10: whenever a submitted round-1 draft has an empty home or away team
\* id, the submission fails (the error named is incomplete pairing) and no
\* fixture is written. Stated here without the error's name: the submission
\* is not accepted and the tournament has no stored fixture.
C10_IncompleteDraftRejected ==
    (outcome.op = "saveRound1" /\ IncompleteDraft) =>
        /\ ~Accepted
        /\ FixturesOf(activeTournamentId) = <<>>

\* ---- full replace ----
LibSaved == outcome = [op |-> "saveRound1AndGenerateRound2", result |-> "ok"]

\* the fixtures of the other tournaments, in table order
OtherFixtures(table) ==
    SelectSeq(table, LAMBDA f : f.tournament_id # activeTournamentId)

\* C11: after a successful round-1 submission for a tournament its stored
\* fixtures are exactly the newly built ones, one round-1 and one round-2
\* fixture per submitted draft, nothing stored before the call is left, and
\* the fixtures of the other tournaments are as before.
C11_FullReplace ==
    [][LibSaved' =>
        LET now == SelectSeq(fixtures', LAMBDA f : f.tournament_id = activeTournamentId)
        IN /\ Len(now) = 2 * Len(drafts)
           /\ \A k \in 1..Len(drafts) :
               /\ Cardinality({l \in 1..Len(now) :
                      /\ now[l].round_number = 1
                      /\ now[l].match_number = drafts[k].match_number
                      /\ now[l].home_team_id = drafts[k].home_team_id
                      /\ now[l].away_team_id = drafts[k].away_team_id}) = 1
               /\ Cardinality({l \in 1..Len(now) :
                      /\ now[l].round_number = 2
                      /\ now[l].match_number = drafts[k].match_number
                      /\ now[l].home_team_id = drafts[k].away_team_id
                      /\ now[l].away_team_id = drafts[k].home_team_id}) = 1
           /\ OtherFixtures(fixtures') = OtherFixtures(fixtures)
    ]_vars

\* a submission of one pairing replaced two stored fixtures of the
\* tournament, beside the fixture of another tournament
C11_Witness ==
    /\ LibSaved
    /\ Len(drafts) = 1
    /\ Len(FixturesOf(activeTournamentId)) = 2
    /\ \A k \in 1..Len(fixtures) : fixtures[k] # StaleRound1
    /\ OtherFixtures(fixtures) = <<OtherTournamentFixture>>

\* ---- roster gate ----
\* the number of players with role = player, counted on the roster itself
PlayerRoleCount == Cardinality({e \in 1..Len(players) : players[e] = "player"})

\* the gate of tournament t, as stored
Locked(t) == t \in localStorage

\* C12: the gate of a tournament moves from Unlocked to Locked only by a
\* lockRoster with at least 2 players of role player on the roster, which
\* then succeeds; with fewer than 2 lockRoster fails with the
\* roster-too-small error and the gate stays as it was.
C12_LockNeedsTwoPlayers ==
    [][/\ \A t \in TournamentIds :
            (~Locked(t) /\ Locked(t)') =>
                /\ t = activeTournamentId
                /\ PlayerRoleCount >= 2
                /\ rosterLocked'
                /\ outcome' = [op |-> "lockRoster", result |-> "ok"]
       /\ outcome'.op = "lockRoster" =>
            /\ PlayerRoleCount < 2 <=> outcome'.result = "RosterTooSmall"
            /\ PlayerRoleCount >= 2 <=> outcome'.result = "ok"
            /\ outcome'.result = "RosterTooSmall" =>
                  /\ localStorage' = localStorage
                  /\ rosterLocked' = rosterLocked
            /\ outcome'.result = "ok" =>
                  Locked(activeTournamentId)' /\ rosterLocked'
    ]_vars

\* a roster of one player and two admins was refused and stayed unlocked
C12_WitnessRefused ==
    /\ outcome = [op |-> "lockRoster", result |-> "RosterTooSmall"]
    /\ PlayerRoleCount = 1 /\ Len(players) = 3
    /\ ~rosterLocked /\ ~Locked(activeTournamentId)

\* a roster of exactly two players was locked
C12_Witness ==
    /\ outcome = [op |-> "lockRoster", result |-> "ok"]
    /\ PlayerRoleCount = 2
    /\ rosterLocked /\ Locked(activeTournamentId)

\* C13: unlockRoster is possible from Locked whatever the roster, the draw,
\* the fixtures and the matches hold, and a step that unlocks a tournament
\* changes only the gate: assignments, fixtures, matches, roster and team
\* pool are as before it.
C13_UnlockChangesOnlyGate ==
    /\ []((isAdmin(role) /\ activeTournamentId # NULL_ID /\ Locked(activeTournamentId))
             => ENABLED (unlockRoster /\ ~Locked(activeTournamentId)'))
    /\ [][\A t \in TournamentIds :
            (Locked(t) /\ ~Locked(t)') =>
                /\ t = activeTournamentId
                /\ outcome' = [op |-> "unlockRoster", result |-> "ok"]
                /\ ~rosterLocked'
                /\ tournament_players' = tournament_players
                /\ fixtures' = fixtures
                /\ matches' = matches
                /\ players' = players
                /\ tournamentTeams' = tournamentTeams
                /\ activeTournamentId' = activeTournamentId
                /\ localStorage' = localStorage \ {t}
      ]_vars

\* a tournament with a draw, fixtures and a match was unlocked and still
\* holds all three
C13_Witness ==
    /\ outcome = [op |-> "unlockRoster", result |-> "ok"]
    /\ ~Locked(activeTournamentId) /\ ~rosterLocked
    /\ Len(DrawOf(activeTournamentId)) >= 2
    /\ Len(FixturesOf(activeTournamentId)) = 2
    /\ matches # <<>>

\* C14: every tournament has its own gate, Unlocked at the start; a lock or
\* unlock changes the gate of the active tournament only, and after any
\* sequence of locks, unlocks and switches of the active tournament the gate
\* the draw consults is the stored gate of the tournament being drawn.
C14_GatePerTournament ==
    /\ [](/\ outcome = NoOutcome => \A t \in TournamentIds : ~Locked(t)
          /\ rosterLocked <=>
                (activeTournamentId # NULL_ID /\ Locked(activeTournamentId)))
    /\ [][/\ \A t \in TournamentIds :
               (Locked(t)' # Locked(t)) =>
                   /\ t = activeTournamentId
                   /\ outcome'.op \in {"lockRoster", "unlockRoster"}
          /\ (outcome'.op = "draw" /\ activeTournamentId # NULL_ID) =>
               (outcome'.result = "RosterNotLocked" <=> ~Locked(activeTournamentId))
      ]_vars

\* tournament 1 is locked and drawn; after a switch to tournament 2, which
\* is unlocked, the draw was refused
C14_Witness ==
    /\ activeTournamentId = 2
    /\ Locked(1) /\ ~Locked(2)
    /\ DrawOf(1) # <<>>
    /\ outcome = [op |-> "draw", result |-> "RosterNotLocked"]

\* ---- draw validation ----
\* C15: a draw never succeeds with fewer than 2 players of role player; with
\* a Locked gate it fails with the too-few-players message for fewer than 2
\* players, with the insufficient-teams-for-players error for at least 2
\* players and a smaller team pool, and passes validation (reaches the
\* store) with at least 2 players and a pool at least as large; a failed
\* validation leaves the assignments as they were.
C15_DrawValidation ==
    [][(outcome'.op = "draw" /\ activeTournamentId # NULL_ID) =>
        /\ PlayerRoleCount < 2 =>
              outcome'.result \in {"RosterNotLocked", "TooFewPlayers"}
        /\ Locked(activeTournamentId) =>
              /\ PlayerRoleCount < 2 <=> outcome'.result = "TooFewPlayers"
              /\ (PlayerRoleCount >= 2 /\ Len(tournamentTeams) < PlayerRoleCount)
                     <=> outcome'.result = "InsufficientTeamsForPlayers"
              /\ (PlayerRoleCount >= 2 /\ Len(tournamentTeams) >= PlayerRoleCount)
                     <=> outcome'.result \in {"ok", "DeleteError", "InsertError"}
        /\ outcome'.result \in {"TooFewPlayers", "InsufficientTeamsForPlayers"} =>
              tournament_players' = tournament_players
    ]_vars

\* three players and a pool of two teams: refused for the pool
C15_Witness ==
    /\ outcome = [op |-> "draw", result |-> "InsufficientTeamsForPlayers"]
    /\ Locked(activeTournamentId)
    /\ PlayerRoleCount = 3 /\ Len(tournamentTeams) = 2

\* ---- re-draw ----
\* the assignments of tournament t form a bijection between players and teams
Bijective(t) ==
    \A k, l \in 1..Len(DrawOf(t)) :
        k # l => /\ DrawOf(t)[k].player_email # DrawOf(t)[l].player_email
                 /\ DrawOf(t)[k].team_id # DrawOf(t)[l].team_id

\* the rows of table `tournament_players` that belong to other tournaments
OtherDraws(table) ==
    SelectSeq(table, LAMBDA r : r.tournament_id # activeTournamentId)

\* C16: after any sequence of draws and draw resets, one at a time, the
\* stored assignments of every tournament are a bijection (a player has at
\* most one team, a team at most one player); a successful draw leaves the
\* tournament with exactly one assignment per player and nothing of an
\* earlier draw, a successful reset with none, and neither touches the
\* assignments of another tournament.
C16_OneDrawPerTournament ==
    /\ [](\A t \in TournamentIds : Bijective(t))
    /\ [][/\ outcome' = [op |-> "draw", result |-> "ok"] =>
               LET now == SelectSeq(tournament_players',
                                    LAMBDA r : r.tournament_id = activeTournamentId)
               IN /\ Len(now) = PlayerRoleCount
                  /\ \A e \in 1..Len(players) :
                        players[e] = "player" =>
                            Cardinality({k \in 1..Len(now) : now[k].player_email = e}) = 1
                  /\ OtherDraws(tournament_players') = OtherDraws(tournament_players)
          /\ outcome' = [op |-> "resetDraw", result |-> "ok"] =>
               /\ \A k \in 1..Len(tournament_players') :
                     tournament_players'[k].tournament_id # activeTournamentId
               /\ OtherDraws(tournament_players') = OtherDraws(tournament_players)
      ]_vars

\* both tournaments are drawn, tournament 1 after tournament 2
C16_Witness ==
    /\ outcome = [op |-> "draw", result |-> "ok"]
    /\ activeTournamentId = 1
    /\ Len(DrawOf(1)) = 2 /\ Len(DrawOf(2)) = 2
    /\ tournament_players[1].tournament_id = 2

\* ---- schedule: second leg, rounds, failures ----
Generated(r) == outcome = [op |-> "generateSchedule", result |-> r]

\* N rounded up to an even number, for the N teams of the pool
EvenSize == Len(tournamentTeams) + (Len(tournamentTeams) % 2)

\* some match is (r, home, away)
HasMatch(r, home, away) ==
    \E k \in 1..Len(matches) :
        /\ matches[k].round = r
        /\ matches[k].home_team_id = home
        /\ matches[k].away_team_id = away

\* C17: with the double flag set the second leg mirrors the first: (r, home,
\* away) is a first-leg match iff (r + offset, away, home) is a second-leg
\* match, offset = N' - 1 with N' = N rounded up to an even number; the
\* second leg holds nothing else and is as long as the first.
C17_SecondLegMirrors ==
    Generated("Generated2x") =>
        LET offset == EvenSize - 1
            first == {k \in 1..Len(matches) : matches[k].round <= offset}
            second == {k \in 1..Len(matches) : matches[k].round > offset}
        IN /\ \A k \in 1..Len(matches) : matches[k].round \in 1..(2 * offset)
           /\ Cardinality(first) = Cardinality(second)
           /\ first # {}
           /\ \A r \in 1..offset : \A h, a \in Range(tournamentTeams) :
                 HasMatch(r, h, a) <=> HasMatch(r + offset, a, h)
           /\ \A k \in 1..Len(matches) :
                 /\ matches[k].home_team_id \in Range(tournamentTeams)
                 /\ matches[k].away_team_id \in Range(tournamentTeams)

\* a double schedule of an odd pool, where N' differs from N
C17_Witness ==
    /\ Generated("Generated2x")
    /\ Len(tournamentTeams) = 3
    /\ Len(matches) = 6
    /\ \E k \in 1..Len(matches) : matches[k].round = 6

\* the matches of round r that team t plays in
Appearances(t, r) ==
    {k \in 1..Len(matches) :
        /\ matches[k].round = r
        /\ t \in {matches[k].home_team_id, matches[k].away_team_id}}

\* C18: in every round of a single-leg schedule no team appears in more than
\* one match and every side of every match is a team of the pool (never the
\* bye marker, never missing); every round has N div 2 matches; for even N
\* each team plays once in every round (N - 1 matches per team), for odd N
\* each team sits out exactly one round.
C18_RoundsAreMatchings ==
    Generated("Generated") =>
        LET N == Len(tournamentTeams)
            rounds == 1..(EvenSize - 1)
        IN /\ \A k \in 1..Len(matches) :
                 /\ matches[k].home_team_id \in Range(tournamentTeams)
                 /\ matches[k].away_team_id \in Range(tournamentTeams)
                 /\ matches[k].home_team_id # matches[k].away_team_id
                 /\ matches[k].round \in rounds
           /\ \A r \in rounds :
                 /\ Cardinality({k \in 1..Len(matches) : matches[k].round = r}) = N \div 2
                 /\ \A t \in Range(tournamentTeams) : Cardinality(Appearances(t, r)) <= 1
           /\ \A t \in Range(tournamentTeams) :
                 /\ Cardinality({r \in rounds : Appearances(t, r) = {}})
                       = IF N % 2 = 0 THEN 0 ELSE 1
                 /\ Cardinality({k \in 1..Len(matches) :
                        t \in {matches[k].home_team_id, matches[k].away_team_id}}) = N - 1

\* four teams: 3 rounds of 2 matches
C18_Witness ==
    /\ Generated("Generated")
    /\ Len(tournamentTeams) = 4
    /\ Len(matches) = 6
    /\ {matches[k].round : k \in 1..Len(matches)} = 1..3

\* five teams: 5 rounds of 2 matches, a different team idle in each
C18_WitnessOdd ==
    /\ Generated("Generated")
    /\ Len(tournamentTeams) = 5
    /\ Len(matches) = 10

\* C19: generateSchedule answers insufficient teams only for a pool of fewer
\* than 2 teams, and then inserts no match; for every pool of at least 2
\* teams the rows it builds are a schedule of N(N-1)/2 matches (twice that
\* with the double flag), and on a tournament without matches it inserts
\* them whenever the store answers.
C19_FailsOnlyBelowTwoTeams ==
    /\ [](Len(tournamentTeams) >= 2 =>
             /\ 2 * Len(ScheduleRows(tournamentTeams, FALSE))
                   = Len(tournamentTeams) * (Len(tournamentTeams) - 1)
             /\ Len(ScheduleRows(tournamentTeams, TRUE))
                   = Len(tournamentTeams) * (Len(tournamentTeams) - 1))
    /\ [][(outcome'.op = "generateSchedule" /\ activeTournamentId # NULL_ID) =>
            /\ outcome'.result = "InsufficientTeams" => Len(tournamentTeams) < 2
            /\ Len(tournamentTeams) < 2 =>
                  /\ outcome'.result \in {"InsufficientTeams", "StoreError"}
                  /\ matches' = matches
            /\ (Len(tournamentTeams) >= 2 /\ matches = <<>>) =>
                  /\ outcome'.result \in {"Generated", "Generated2x", "StoreError"}
                  /\ outcome'.result = "StoreError" <=> matches' = <<>>
      ]_vars

\* a pool of one team was refused and no match inserted
C19_Witness ==
    /\ Generated("InsufficientTeams")
    /\ Len(tournamentTeams) = 1
    /\ matches = <<>>

\* a pool of two teams got its schedule of one match
C19_WitnessTwoTeams ==
    /\ Generated("Generated")
    /\ Len(tournamentTeams) = 2
    /\ Len(matches) = 1

\* ---- recording a result ----
\* an entry that is no non-negative integer: nothing, whitespace, a
\* non-numeric text, a negative number or a fraction
BadEntry(v) ==
    \/ v.kind \in {"empty", "blank", "nan"}
    \/ v.kind = "num" /\ (v.tenths < 0 \/ v.tenths % 10 # 0)

\* C20, as the specification states it: a missing, non-numeric, negative or
\* fractional score is rejected with the invalid-score error and the match
\* record is unchanged.
C20_BadScoreRejected ==
    [][(outcome'.op = "saveMatchResult"
          /\ (\/ BadEntry(typed[1]) \/ BadEntry(typed[2])
              \/ editHomeGoals = EMPTY_TEXT \/ editAwayGoals = EMPTY_TEXT)) =>
        /\ outcome'.result = "InvalidScore"
        /\ matches' = matches
    ]_vars

\* the score stored for entry v, given the score the input was filled with
StoresEntry(v, before, stored) ==
    CASE v.kind = "none" -> stored = before /\ before # NULL_SCORE
      [] v.kind \in {"empty", "blank"} -> stored = 0
      [] v.kind = "nan" -> FALSE
      [] v.kind = "num" /\ v.tenths < 0 -> stored = 0
      [] v.kind = "num" /\ v.tenths > 10 * MaxGoals -> stored = MaxGoals
      [] OTHER -> 10 * stored <= v.tenths /\ v.tenths < 10 * stored + 10

\* C20, amended: a scoreline is stored only if both inputs hold an integer
\* of 0..99, and stored scores are always such integers; an input left
\* empty, or emptied by a non-numeric entry, is rejected with the
\* invalid-score error and the match record is unchanged; a negative entry
\* is turned into 0, an entry above 99 into 99, a fraction is truncated and
\* an emptied input becomes 0 as it is entered, and that value is stored.
C20_StoresClampedScores ==
    /\ [](\A k \in 1..Len(matches) :
            \/ /\ matches[k].player1_score = NULL_SCORE
               /\ matches[k].player2_score = NULL_SCORE
            \/ /\ matches[k].player1_score \in MinGoals..MaxGoals
               /\ matches[k].player2_score \in MinGoals..MaxGoals)
    /\ [][outcome'.op = "saveMatchResult" =>
            /\ outcome'.result = "InvalidScore"
                  <=> (editHomeGoals = EMPTY_TEXT \/ editAwayGoals = EMPTY_TEXT)
            /\ (typed[1].kind = "nan" \/ typed[2].kind = "nan")
                  => outcome'.result = "InvalidScore"
            /\ outcome'.result \in {"InvalidScore", "StoreError"} => matches' = matches
            /\ outcome'.result = "ok" =>
                  /\ StoresEntry(typed[1], matches[editingMatchId].player1_score,
                                 matches'[editingMatchId].player1_score)
                  /\ StoresEntry(typed[2], matches[editingMatchId].player2_score,
                                 matches'[editingMatchId].player2_score)
                  /\ matches'[editingMatchId].played_at # NULL_TS
                  /\ \A k \in 1..Len(matches) :
                        k # editingMatchId => matches'[k] = matches[k]
      ]_vars

\* 99 : 2 is stored: the scoreline of the entries 100 and 2.5
C20_Witness ==
    /\ outcome = [op |-> "saveMatchResult", result |-> "ok"]
    /\ \E k \in 1..Len(matches) :
        /\ matches[k].player1_score = 99
        /\ matches[k].player2_score = 2

\* a non-numeric entry emptied the home input and the save was refused
C20_WitnessRefused ==
    /\ outcome = [op |-> "saveMatchResult", result |-> "InvalidScore"]
    /\ typed[1].kind = "nan" /\ editHomeGoals = EMPTY_TEXT
    /\ typed[2].kind = "num" /\ editAwayGoals = 1

\* ---- played and unplayed matches ----
Unplayed(m) ==
    m.player1_score = NULL_SCORE /\ m.player2_score = NULL_SCORE /\ m.played_at = NULL_TS

Played(m) ==
    m.player1_score # NULL_SCORE /\ m.player2_score # NULL_SCORE /\ m.played_at # NULL_TS

\* C21: from generated, unplayed matches and through any sequence of saved
\* and cleared results every match is unplayed (both scores and played-at
\* null) or played (all three set), never partially scored, and a
\* successful clear of a played match leaves it unplayed and no other match
\* changed.
C21_PlayedOrUnplayed ==
    /\ [](\A k \in 1..Len(matches) : Unplayed(matches[k]) \/ Played(matches[k]))
    /\ [][outcome' = [op |-> "clearMatchResult", result |-> "ok"] =>
            \E k \in 1..Len(matches) :
                /\ Played(matches[k])
                /\ Unplayed(matches'[k])
                /\ \A j \in 1..Len(matches) : j # k => matches'[j] = matches[j]
      ]_vars

\* a played match was cleared while the other match stays played
C21_Witness ==
    /\ outcome = [op |-> "clearMatchResult", result |-> "ok"]
    /\ \E k, j \in 1..Len(matches) : Unplayed(matches[k]) /\ Played(matches[j])

\* ---- refused operations ----
\* the last operation ended in one of the validation failures
Refused(o) ==
    \/ /\ o.op = "draw"
       /\ o.result \in {"RosterNotLocked", "TooFewPlayers", "InsufficientTeamsForPlayers"}
    \/ /\ o.op \in {"saveRound1", "saveRound1AndGenerateRound2"}
       /\ o.result \in {"NoMatches", "IncompletePairing", "SelfPairing",
                        "DuplicateTeamUsage"}
    \/ o = [op |-> "lockRoster", result |-> "RosterTooSmall"]
    \/ o = [op |-> "saveMatchResult", result |-> "InvalidScore"]

\* C22: an operation that ends in a validation failure (a draw refused for
\* an unlocked roster, too few players or too few teams, a round-1
\* submission refused as empty, incomplete, self-pairing or duplicate-team,
\* a refused lock, a refused score) leaves the stored assignments, fixtures,
\* matches and lock flags exactly as they were; after a refused lock the
\* gate is Unlocked.
C22_RefusalWritesNothing ==
    [][Refused(outcome') =>
        /\ tournament_players' = tournament_players
        /\ fixtures' = fixtures
        /\ matches' = matches
        /\ localStorage' = localStorage
        /\ rosterLocked' = rosterLocked
        /\ outcome'.op = "lockRoster" =>
              ~rosterLocked' /\ ~Locked(activeTournamentId)'
    ]_vars

\* a draw was refused for too few teams while an earlier draw is stored
C22_Witness ==
    /\ outcome = [op |-> "draw", result |-> "InsufficientTeamsForPlayers"]
    /\ tournament_players = EarlierDraw

\* a draw was refused on the unlocked roster after a successful draw
C22_WitnessUnlocked ==
    /\ outcome = [op |-> "draw", result |-> "RosterNotLocked"]
    /\ Len(DrawOf(1)) = 3

C22_WitnessTooFewPlayers ==
    /\ outcome = [op |-> "draw", result |-> "TooFewPlayers"]
    /\ tournament_players = EarlierDraw

\* the library refused a team used twice while fixtures are stored
C22_WitnessDuplicate ==
    /\ outcome = [op |-> "saveRound1AndGenerateRound2", result |-> "DuplicateTeamUsage"]
    /\ Len(FixturesOf(1)) = 2

C22_WitnessIncomplete ==
    /\ outcome = [op |-> "saveRound1AndGenerateRound2", result |-> "IncompletePairing"]
    /\ Len(FixturesOf(1)) = 2

C22_WitnessSelfPairing ==
    /\ outcome = [op |-> "saveRound1", result |-> "SelfPairing"]
    /\ fixtures = <<OtherTournamentFixture>>

C22_WitnessLock ==
    /\ outcome = [op |-> "lockRoster", result |-> "RosterTooSmall"]
    /\ tournament_players = EarlierDraw

C22_WitnessScore ==
    /\ outcome = [op |-> "saveMatchResult", result |-> "InvalidScore"]
    /\ typed[1].kind = "nan"

\* ---- replacing a draw or the fixtures ----
\* C23, as the specification states it: when a draw or a round-1 save
\* returns, with success or with a store error at its delete or insert
\* step, the tournament's stored assignments (fixtures) are exactly the
\* previous set or exactly the complete new set.
C23_ReplaceAllOrNothing ==
    [][/\ outcome'.op = "draw" =>
            \/ DrawOf(activeTournamentId)' = DrawOf(activeTournamentId)
            \/ /\ outcome'.result = "ok"
               /\ Len(DrawOf(activeTournamentId)') = Len(onlyPlayers)
               /\ Bijective(activeTournamentId)'
       /\ outcome'.op \in {"saveRound1", "saveRound1AndGenerateRound2"} =>
            \/ FixturesOf(activeTournamentId)' = FixturesOf(activeTournamentId)
            \/ /\ outcome'.result = "ok"
               /\ Len(FixturesOf(activeTournamentId)') = 2 * Len(HandlerCleaned(drafts))
    ]_vars

\* ---- concurrent draws ----
\* C24, as the specification states it: while two draws of the same locked
\* tournament interleave their delete and insert steps, the tournament's
\* stored assignments are bijective in every reachable state.
C24_ConcurrentDrawsBijective == Bijective(activeTournamentId)

\* ---- generating matches ----
Generators == {"generateSchedule", "generateMatchesFromFixtures"}

\* the number of matches of rows with round r, home h and away a
MatchCount(rows, r, h, a) ==
    Cardinality({k \in 1..Len(rows) :
        rows[k].round = r /\ rows[k].home_team_id = h /\ rows[k].away_team_id = a})

\* the number of stored fixtures of tournament t that are no bye, have both
\* team ids and round r, home h and away a
FixtureCount(t, r, h, a) ==
    Cardinality({k \in 1..Len(fixtures) :
        /\ fixtures[k].tournament_id = t /\ ~fixtures[k].is_bye
        /\ fixtures[k].home_team_id # NULL_ID /\ fixtures[k].away_team_id # NULL_ID
        /\ fixtures[k].round_number = r
        /\ fixtures[k].home_team_id = h /\ fixtures[k].away_team_id = a})

\* C26: a generate step changes the matches only when the tournament has
\* none, so that generate calls made one after another without a reset keep
\* the matches of the first successful generation; and a successful
\* generation from fixtures creates exactly one unplayed match per stored
\* non-bye fixture of the tournament that has both team ids, with that
\* fixture's round, home and away.
C26_GenerateNeverAdds ==
    /\ [][outcome'.op \in Generators =>
            /\ Len(matches) > 0 => matches' = matches
            /\ matches' # matches => Len(matches') > 0
       ]_vars
    /\ [][(outcome' = [op |-> "generateMatchesFromFixtures", result |-> "ok"]
             /\ matches' # matches) =>
            /\ matches = <<>>
            /\ \A r \in 0..2, h \in 0..3, a \in 0..3 :
                  MatchCount(matches', r, h, a) = FixtureCount(activeTournamentId, r, h, a)
            /\ \A k \in 1..Len(matches') :
                  /\ matches'[k].round \in 1..2
                  /\ matches'[k].home_team_id \in 1..3
                  /\ matches'[k].away_team_id \in 1..3
                  /\ Unplayed(matches'[k])
       ]_vars

\* a second generation, from the schedule generator, after matches were
\* generated from the five-row table: two matches, bye and half row skipped
C26_Witness ==
    /\ outcome = [op |-> "generateSchedule", result |-> "MatchesExist"]
    /\ Len(FixturesOf(1)) = 4
    /\ Len(matches) = 2
    /\ matches[1].round = 1 /\ matches[1].home_team_id = 3 /\ matches[1].away_team_id = 1
    /\ matches[2].round = 2

C26_WitnessFromFixtures ==
    /\ outcome = [op |-> "generateMatchesFromFixtures", result |-> "MatchesExist"]
    /\ Len(matches) = 3

\* ---- players of the matches ----
\* player p is the owner of team t in the active tournament's stored draw,
\* or p is null and the team has no owner there
OwnerIs(t, p) ==
    IF \E k \in 1..Len(tournament_players) :
          /\ tournament_players[k].tournament_id = activeTournamentId
          /\ tournament_players[k].team_id = t
    THEN \E k \in 1..Len(tournament_players) :
          /\ tournament_players[k].tournament_id = activeTournamentId
          /\ tournament_players[k].team_id = t
          /\ tournament_players[k].player_email = p
    ELSE p = NULL_ID

AllAssigned(ms) ==
    \A k \in 1..Len(ms) :
        (ms[k].home_team_id # NULL_ID /\ ms[k].away_team_id # NULL_ID) =>
            /\ OwnerIs(ms[k].home_team_id, ms[k].player1_email)
            /\ OwnerIs(ms[k].away_team_id, ms[k].player2_email)

C27_WitnessAgain ==
    /\ outcome = [op |-> "assignPlayersToMatches", result |-> "AlreadyAssigned"]
    /\ Len(matches) = 3
    /\ \E k \in 1..3 : matches[k].player1_email # NULL_ID

\* ---- the pool and the draw ----
\* C28, as the specification states it: in every state reached through
\* draw, resetDraw, addTeamToTournament and removeTeamFromTournament every
\* stored assignment of the tournament names a team of the tournament's
\* current pool.
C28_DrawnTeamsInPool ==
    \A k \in 1..Len(DrawOf(activeTournamentId)) :
        DrawOf(activeTournamentId)[k].team_id \in Range(tournamentTeams)

\* the fields of a standings row that the quick statistics also show
StatsOfRow(row) ==
    [played |-> row.played, wins |-> row.wins, draws |-> row.draws,
     losses |-> row.losses, pts |-> row.pts, gf |-> row.gf, ga |-> row.ga]

\* C29: after the standings are computed, every player whose drawn team is in
\* the pool sees quick statistics equal to the played, wins, draws, losses,
\* points, goals-for and goals-against of that team's row of the standings.
C29_StatsEqualStandingsRow ==
    outcome.op = "renderStandings" =>
        \A tp \in Range(DrawOf(activeTournamentId)) :
            myTeamId(tp.player_email) \in Range(tournamentTeams) =>
                \E k \in 1..Len(standings) :
                    /\ standings[k].team_id = myTeamId(tp.player_email)
                    /\ StatsOfRow(standings[k]) = myStats(myTeamId(tp.player_email), matches)

\* the five conditions of the endpoint, read off the request itself
HasBearerToken == req.authorization.scheme = "Bearer" /\ req.authorization.credentials # ""
TokenResolves == HasBearerToken /\ req.authorization.credentials \in {"u1", "u2", "u3"}
CallerIsAdmin == HasBearerToken /\ req.authorization.credentials = "u1"
EmailHasAt ==
    /\ req.body.parses /\ "email" \in DOMAIN req.body.fields
    /\ \E k \in 1..Len(req.body.fields["email"]) : req.body.fields["email"][k] = "@"
TournamentGiven ==
    /\ req.body.parses /\ "tournamentId" \in DOMAIN req.body.fields
    /\ \E k \in 1..Len(req.body.fields["tournamentId"]) :
            req.body.fields["tournamentId"][k] # " "

\* the role lookup itself failed: answered 500 at the role check
RoleLookupFailed == response = [status |-> 500, error |-> "Role check failed"]

\* a call of inviteUserByEmail is issued only for a request that passes all
\* five conditions
InvitedOnlyAfterChecks ==
    calls' # calls =>
        /\ HasBearerToken /\ TokenResolves /\ CallerIsAdmin
        /\ EmailHasAt /\ TournamentGiven

C30_WitnessForbidden ==
    /\ pc = "done" /\ response.status = 403
    /\ TokenResolves /\ EmailHasAt /\ TournamentGiven
    /\ calls = {}

\* an admin's request without a tournament id was answered 400
C30_WitnessNoTournament ==
    /\ pc = "done" /\ response.status = 400
    /\ CallerIsAdmin /\ EmailHasAt /\ ~TournamentGiven

\* what a write of the dashboard would change: the tables, the roster-lock
\* keys, the lock state and the requests to the invite endpoint
StoreAndLock ==
    <<players, tournaments, tournamentTeams, matches, tournament_players, fixtures,
      localStorage, rosterLocked, req, pc, calls>>

\* C25: while the role is not admin, no step of a mutating dashboard handler
\* changes a table, sends a request to the invite endpoint or changes the
\* lock state.
C25_NonAdminWritesNothing ==
    [][role # "admin" => UNCHANGED StoreAndLock]_vars

\* a player called unlockRoster on a drawn tournament and the handler
\* returned at its role check
C25_Witness ==
    /\ role = "player"
    /\ outcome = [op |-> "unlockRoster", result |-> "NotAdmin"]
    /\ rosterLocked /\ tournament_players = EarlierDraw

\* a visitor without a role called deleteTournament: the row is still there
C25_WitnessNoRole ==
    /\ role = "null"
    /\ outcome = [op |-> "deleteTournament", result |-> "NotAdmin"]
    /\ tournaments[1] # 0 /\ activeTournamentId = 1

\* an admin's call of the same handlers does write
C25_WitnessAdminWrites ==
    /\ role = "admin"
    /\ outcome = [op |-> "lockRoster", result |-> "ok"]
    /\ rosterLocked

=============================================================================
